---- MODULE Spec2Model ----
(***************************************************************************)
(* Model of the paper-ingestion pipeline of paper_database.                *)
(*                                                                         *)
(* Strings are sequences of one-character strings, so that the string      *)
(* conversions of the source (toLowerCase, replace, trim, match) are       *)
(* computed character by character.  An optional string field that is     *)
(* undefined is the empty sequence: every use of doi, arxivId and url in   *)
(* deduplication.ts tests the field for truthiness first, and undefined    *)
(* and '' take the same branch there.                                      *)
(*                                                                         *)
(* A similarity is a fraction [num, den] (the source computes              *)
(* 1 - distance / maxLength); den = 0 stands for a division by zero.       *)
(*                                                                         *)
(* Each component has its own variables and its own specification, in      *)
(* which the other components are at rest: Spec (checkDuplicates), SpecSim  *)
(* (the title functions), SpecApply (applyEnrichment), SpecMain (main of    *)
(* add-papers.ts), SpecRetry (withRetry), SpecLookup (enrichPaper),         *)
(* SpecMerge (mergeApiResponses), SpecBatch (enrichPapers; SpecBatchLive    *)
(* with the fairness of the event loop), SpecParse (parseResearchMarkdown)  *)
(* and SpecStore (savePapers and loadExistingPapers on the text of          *)
(* data.json).                                                              *)
(***************************************************************************)
EXTENDS Integers, Sequences, FiniteSets, TLC

\* ------------------------------------------------------------------ bounds

\* Longest raw title drawn for the similarity engine.
MaxLen == 3
\* Longest batch of candidates handed to checkDuplicates.
MaxBatch == 3
\* Largest existing corpus.
MaxCorpus == 2

\* ----------------------------------------------------------------- strings

Lowers == <<"a","b","c","d","e","f","g","h","i","j","k","l","m","n","o","p","q","r","s","t","u","v","w","x","y","z">>
Uppers == <<"A","B","C","D","E","F","G","H","I","J","K","L","M","N","O","P","Q","R","S","T","U","V","W","X","Y","Z">>
Digits == {"0","1","2","3","4","5","6","7","8","9"}
UpperLetters == {Uppers[k] : k \in 1..26}
WordChars == {Lowers[k] : k \in 1..26} \cup UpperLetters \cup Digits \cup {"_"}
LowerOf == [c \in UpperLetters |-> Lowers[CHOOSE k \in 1..26 : Uppers[k] = c]]

\* \w of a JavaScript regular expression
IsWordChar(c) == c \in WordChars
\* \s of a JavaScript regular expression (the white space the model draws)
IsSpace(c) == c \in {" ", "\t"}
IsDigit(c) == c \in Digits

toLowerChar(c) == IF c \in UpperLetters THEN LowerOf[c] ELSE c

\* String.prototype.toLowerCase (the function is turned into a sequence)
toLowerCase(s) == [k \in 1..Len(s) |-> toLowerChar(s[k])] \o << >>

\* Whether p occurs in s at position at.
OccursAt(s, p, at) ==
  /\ Len(s) >= at - 1 + Len(p)
  /\ \A k \in 1..Len(p) : s[at - 1 + k] = p[k]
StartsWith(s, p) == OccursAt(s, p, 1)
DropFirst(s, n) == SubSeq(s, n + 1, Len(s))

RECURSIVE TrimLeft(_)
TrimLeft(s) ==
  IF s # << >> /\ IsSpace(Head(s)) THEN TrimLeft(Tail(s)) ELSE s

RECURSIVE TrimRight(_)
TrimRight(s) ==
  IF s # << >> /\ IsSpace(s[Len(s)]) THEN TrimRight(SubSeq(s, 1, Len(s) - 1)) ELSE s

\* String.prototype.trim
trim(s) == TrimRight(TrimLeft(s))

\* s.replace(/[^\w\s]/g, '')
RemovePunctuation(s) == SelectSeq(s, LAMBDA c : IsWordChar(c) \/ IsSpace(c))

\* s.replace(/\s+/g, ' ')
RECURSIVE CollapseWhitespace(_)
CollapseWhitespace(s) ==
  IF s = << >> THEN << >>
  ELSE IF IsSpace(Head(s))
       THEN <<" ">> \o CollapseWhitespace(TrimLeft(s))
       ELSE <<Head(s)>> \o CollapseWhitespace(Tail(s))

Max(x, y) == IF x >= y THEN x ELSE y
Min(x, y) == IF x <= y THEN x ELSE y

\* -------------------------------------------------------- similarity engine

\* One cell of the matrix: row is matrix[i] filled up to column j-1, prev is
\* matrix[i-1]; column j is held at index j+1.
LevCell(a, b, i, j, prev, row, delCost) ==
  IF a[i] = b[j]
  THEN prev[j]
  ELSE Min(prev[j] + 1, Min(row[j] + 1, prev[j + 1] + delCost))

\* The new row is evaluated (its length is read) before the loop goes on.
RECURSIVE LevFillRow(_, _, _, _, _, _, _)
LevFillRow(a, b, i, j, prev, row, delCost) ==
  IF j > Len(b) THEN row
  ELSE LET next == Append(row, LevCell(a, b, i, j, prev, row, delCost))
       IN IF Len(next) = j + 1
          THEN LevFillRow(a, b, i, j + 1, prev, next, delCost)
          ELSE next

RECURSIVE LevFill(_, _, _, _, _)
LevFill(a, b, i, prev, delCost) ==
  IF i > Len(a) THEN prev
  ELSE LET row == LevFillRow(a, b, i, 1, prev, <<i>>, delCost)
       IN IF Len(row) = Len(b) + 1
          THEN LevFill(a, b, i + 1, row, delCost)
          ELSE row

\* A deletion that costs 2.
levenshteinDistance_deletion2(a, b) ==
  LevFill(a, b, 1, [j \in 1..(Len(b) + 1) |-> j - 1], 2)[Len(b) + 1]

levenshteinDistance(a, b) ==
  LevFill(a, b, 1, [j \in 1..(Len(b) + 1) |-> j - 1], 1)[Len(b) + 1]

\* The case is kept.
normalize_keepsCase(s) == trim(CollapseWhitespace(RemovePunctuation(s)))

\* The normalize closure of calculateTitleSimilarity.
normalize(s) == trim(CollapseWhitespace(RemovePunctuation(toLowerCase(s))))

One == [num |-> 1, den |-> 1]
Zero == [num |-> 0, den |-> 1]

\* x >= y for fractions with positive denominators
FracGeq(x, y) == x.num * y.den >= y.num * x.den
FracEq(x, y) == x.num * y.den = y.num * x.den

\* Without the equality and empty-string shortcuts.
calculateTitleSimilarity_noShortcut(title1, title2) ==
  LET t1 == normalize(title1)
      t2 == normalize(title2)
      distance == levenshteinDistance(t1, t2)
      maxLength == Max(Len(t1), Len(t2))
  IN [num |-> maxLength - distance, den |-> maxLength]

calculateTitleSimilarity(title1, title2) ==
  LET t1 == normalize(title1)
      t2 == normalize(title2)
  IN IF t1 = t2 THEN One
     ELSE IF Len(t1) = 0 \/ Len(t2) = 0 THEN Zero
     ELSE LET distance == levenshteinDistance(t1, t2)
              maxLength == Max(Len(t1), Len(t2))
          IN [num |-> maxLength - distance, den |-> maxLength]

\* ------------------------------------------------------ deduplication engine

HttpsPrefix == <<"h","t","t","p","s",":","/","/","d","o","i",".","o","r","g","/">>
HttpPrefix == <<"h","t","t","p",":","/","/","d","o","i",".","o","r","g","/">>
ArxivAbs == <<"a","r","x","i","v",".","o","r","g","/","a","b","s","/">>
ArxivPdf == <<"a","r","x","i","v",".","o","r","g","/","p","d","f","/">>

\* s.replace(/^https?:\/\/doi\.org\//i, '') of an already lower-cased string
StripDoiPrefix(s) ==
  IF StartsWith(s, HttpsPrefix) THEN DropFirst(s, Len(HttpsPrefix))
  ELSE IF StartsWith(s, HttpPrefix) THEN DropFirst(s, Len(HttpPrefix))
  ELSE s

\* Compares case-sensitively.
normalizeDOI_caseSensitive(doi) ==
  LET lower == toLowerCase(doi)
  IN trim(IF StartsWith(lower, HttpsPrefix) THEN DropFirst(doi, Len(HttpsPrefix))
          ELSE IF StartsWith(lower, HttpPrefix) THEN DropFirst(doi, Len(HttpPrefix))
          ELSE doi)

normalizeDOI(doi) == trim(StripDoiPrefix(toLowerCase(doi)))

\* Number of digits at the end of s.
RECURSIVE TrailingDigits(_)
TrailingDigits(s) ==
  IF s # << >> /\ IsDigit(s[Len(s)])
  THEN 1 + TrailingDigits(SubSeq(s, 1, Len(s) - 1))
  ELSE 0

\* s.replace(/v\d+$/, '')
StripVersion(s) ==
  LET n == TrailingDigits(s)
  IN IF n >= 1 /\ Len(s) > n /\ s[Len(s) - n] = "v"
     THEN SubSeq(s, 1, Len(s) - n - 1)
     ELSE s

normalizeArxivId(arxivId) == trim(StripVersion(toLowerCase(arxivId)))

\* Whether /arxiv\.org\/(?:abs|pdf)\/(\d{4}\.\d{4,5})/i matches url at p;
\* lower is url in lower case (the i flag).
ArxivMatchesAt(url, lower, p) ==
  LET q == p + Len(ArxivAbs)
  IN /\ OccursAt(lower, ArxivAbs, p) \/ OccursAt(lower, ArxivPdf, p)
     /\ Len(url) >= q + 8
     /\ \A k \in 0..3 : IsDigit(url[q + k])
     /\ url[q + 4] = "."
     /\ \A k \in 5..8 : IsDigit(url[q + k])

\* existing.url?.match(...): the capture group of the leftmost match, or the
\* empty sequence when there is none (a matched id is never empty).
existingArxivMatch(url) ==
  LET lower == toLowerCase(url)
      starts == {p \in 1..Len(url) : ArxivMatchesAt(url, lower, p)}
  IN IF starts = {} THEN << >>
     ELSE LET p == CHOOSE x \in starts : \A y \in starts : x <= y
              q == p + Len(ArxivAbs)
              n == IF Len(url) >= q + 9 /\ IsDigit(url[q + 9]) THEN 10 ELSE 9
          IN SubSeq(url, q, q + n - 1)

\* The DOI of the existing record is compared as written.
DoiRuleMatches_existingAsWritten(normalizedNewDOI, existing) ==
  /\ existing.doi # << >>
  /\ existing.doi = normalizedNewDOI

\* Line 106: the DOI rule against one existing record.
DoiRuleMatches(normalizedNewDOI, existing) ==
  /\ existing.doi # << >>
  /\ normalizeDOI(existing.doi) = normalizedNewDOI

\* Lines 122-125: the arXiv rule against one existing record.
ArxivRuleMatches(normalizedNewArxiv, existing) ==
  LET existingArxivId == existingArxivMatch(existing.url)
  IN /\ existingArxivId # << >>
     /\ normalizeArxivId(existingArxivId) = normalizedNewArxiv

\* A strict comparison with the threshold.
TitleRuleMatches_strict(newPaper, existing, titleThreshold) ==
  /\ FracGeq(calculateTitleSimilarity(newPaper.title, existing.title), titleThreshold)
  /\ ~FracEq(calculateTitleSimilarity(newPaper.title, existing.title), titleThreshold)

\* Lines 139-140: the title rule against one existing record.
TitleRuleMatches(newPaper, existing, titleThreshold) ==
  FracGeq(calculateTitleSimilarity(newPaper.title, existing.title), titleThreshold)

\* The first index of a non-empty set of indices (a for-of loop's first hit).
FirstOf(S) == CHOOSE k \in S : \A m \in S : k <= m

Verdict(matchType, k, similarity) ==
  [isDuplicate |-> TRUE, matchType |-> matchType, matchedPaper |-> k,
   similarity |-> similarity]

\* The title rule tried before the identifier rules.
checkDuplicate_titleFirst(newPaper, existingPapers, titleThreshold) ==
  LET idx == DOMAIN existingPapers
      normalizedNewDOI == normalizeDOI(newPaper.doi)
      normalizedNewArxiv == normalizeArxivId(newPaper.arxivId)
      byDoi == {k \in idx : DoiRuleMatches(normalizedNewDOI, existingPapers[k])}
      byArxiv == {k \in idx : ArxivRuleMatches(normalizedNewArxiv, existingPapers[k])}
      byTitle == {k \in idx : TitleRuleMatches(newPaper, existingPapers[k], titleThreshold)}
  IN IF byTitle # {}
     THEN Verdict("title", FirstOf(byTitle),
                  calculateTitleSimilarity(newPaper.title, existingPapers[FirstOf(byTitle)].title))
     ELSE IF newPaper.doi # << >> /\ byDoi # {} THEN Verdict("doi", FirstOf(byDoi), One)
     ELSE IF newPaper.arxivId # << >> /\ byArxiv # {} THEN Verdict("arxiv", FirstOf(byArxiv), One)
     ELSE [isDuplicate |-> FALSE]

\* matchedPaper is the position of the matched record in existingPapers (the
\* source returns a reference to that element).
checkDuplicate(newPaper, existingPapers, titleThreshold) ==
  LET idx == DOMAIN existingPapers
      normalizedNewDOI == normalizeDOI(newPaper.doi)
      normalizedNewArxiv == normalizeArxivId(newPaper.arxivId)
      byDoi == {k \in idx : DoiRuleMatches(normalizedNewDOI, existingPapers[k])}
      byArxiv == {k \in idx : ArxivRuleMatches(normalizedNewArxiv, existingPapers[k])}
      byTitle == {k \in idx : TitleRuleMatches(newPaper, existingPapers[k], titleThreshold)}
  IN IF newPaper.doi # << >> /\ byDoi # {} THEN Verdict("doi", FirstOf(byDoi), One)
     ELSE IF newPaper.arxivId # << >> /\ byArxiv # {} THEN Verdict("arxiv", FirstOf(byArxiv), One)
     ELSE IF byTitle # {}
     THEN Verdict("title", FirstOf(byTitle),
                  calculateTitleSimilarity(newPaper.title, existingPapers[FirstOf(byTitle)].title))
     ELSE [isDuplicate |-> FALSE]

\* ------------------------------------------------------------------- inputs

\* Titles of the batches and corpora: TitleNear is at similarity 1/2 of
\* TitleBase, TitleUpper and TitlePunct normalize to TitleBase.
TitleBase == <<"a", "b">>
TitleNear == <<"a", "z">>
TitleUpper == <<"A", "B", " ">>
TitlePunct == <<"a", "-", "b">>
TitleOther == <<"q", "r", "s">>
TitleKlm == <<"k", "l", "m">>
\* Two titles at similarity 9/10 of each other.
TitleLong == <<"a", "b", "c", "d", "e", "f", "g", "h", "i", "j">>
TitleLongNear == <<"a", "b", "c", "d", "e", "f", "g", "h", "i", "z">>
DoiBare == <<"1", "0", ".", "1", "/", "a">>
DoiUrlUpper == <<"H", "T", "T", "P", ":", "/", "/", "D", "O", "I", ".", "O", "R", "G", "/", "1", "0", ".", "1", "/", "a">>
DoiHttpsUpper == <<"h", "t", "t", "p", "s", ":", "/", "/", "d", "o", "i", ".", "o", "r", "g", "/", "1", "0", ".", "1", "/", "A">>
DoiOther == <<"1", "0", ".", "1", "/", "b">>
ArxivV2 == <<"2", "3", "0", "1", ".", "0", "0", "0", "0", "1", "v", "2">>
ArxivPlain == <<"2", "3", "0", "1", ".", "0", "0", "0", "0", "1">>
UrlArxivPdf == <<"h", "t", "t", "p", "s", ":", "/", "/", "A", "r", "X", "i", "v", ".", "o", "r", "g", "/", "p", "d", "f", "/", "2", "3", "0", "1", ".", "0", "0", "0", "0", "1", "v", "1">>
UrlArxivAbs == <<"h", "t", "t", "p", "s", ":", "/", "/", "a", "r", "x", "i", "v", ".", "o", "r", "g", "/", "a", "b", "s", "/", "2", "3", "0", "1", ".", "0", "0", "0", "0", "2">>
ChinchillaExisting == <<"T","r","a","i","n","i","n","g"," ","C","o","m","p","u","t","e","-","O","p","t","i","m","a","l"," ","L","a","r","g","e"," ","L","a","n","g","u","a","g","e"," ","M","o","d","e","l","s">>
ChinchillaCandidate == <<"T","r","a","i","n","i","n","g"," ","c","o","m","p","u","t","e"," ","o","p","t","i","m","a","l"," ","l","a","r","g","e"," ","l","a","n","g","u","a","g","e"," ","m","o","d","e","l","s">>

\* The fields of an ExtractedPaper that deduplication reads.
Candidate(title, doi, arxivId) == [title |-> title, doi |-> doi, arxivId |-> arxivId]
\* The fields of a Paper that deduplication reads.
Existing(title, doi, url) == [title |-> title, doi |-> doi, url |-> url]

CandidatePool ==
  { Candidate(TitleBase, << >>, << >>),
    Candidate(TitlePunct, DoiOther, << >>),
    Candidate(TitleUpper, DoiOther, ArxivV2),
    Candidate(TitleOther, DoiUrlUpper, ArxivPlain) }

ExistingPool ==
  { Existing(TitleBase, DoiBare, << >>),
    Existing(TitleKlm, DoiHttpsUpper, << >>),
    Existing(TitleOther, << >>, UrlArxivPdf),
    Existing(TitleNear, << >>, UrlArxivAbs) }

\* titleThreshold: the default 0.9 of lines 100 and 159, and 0.5.
DefaultThreshold == [num |-> 9, den |-> 10]
Thresholds == {DefaultThreshold, [num |-> 1, den |-> 2]}

SeqsUpTo(S, n) == UNION {[1..k -> S] : k \in 0..n}
IsInjective(s) == \A i, j \in DOMAIN s : s[i] = s[j] => i = j

\* Raw titles for the similarity engine: every string of at most MaxLen
\* characters over a lower-case letter, an upper-case letter, a space and a
\* punctuation mark, the two titles of the near-duplicate scenario and two
\* titles at similarity 9/10.
TitleAlphabet == {"a", "B", " ", "-"}
RawTitles ==
  SeqsUpTo(TitleAlphabet, MaxLen)
    \cup {ChinchillaExisting, ChinchillaCandidate, TitleLong, TitleLongNear}

\* -------------------------------------------------------------------- state

VARIABLES
  newPapers,          \* checkDuplicates: the batch of candidates
  existingPapers,     \* checkDuplicates: the existing corpus
  titleThreshold,     \* checkDuplicates: the threshold
  cursor,             \* position of the for-of loop of line 171 in newPapers
  report,             \* report.newPapers and report.duplicates; a paper is held
                      \* as its position in newPapers (the source pushes the
                      \* reference)
  processedTitles, processedDOIs, processedArxivIds,
  dpc,                \* "loop" inside the loop, "done" after return report
  title1, title2,     \* arguments of a call of the similarity engine
  threshold,          \* the titleThreshold of the call of checkDuplicate
  similarity,         \* result of calculateTitleSimilarity(title1, title2)
  distance,           \* result of levenshteinDistance(title1, title2)
  verdict,            \* result of checkDuplicate of title1 against title2
  spc                 \* "start", "scored", "measured", "done"

VARIABLES
  applyPapers,        \* applyEnrichment: the argument papers
  applyResults,       \* applyEnrichment: the argument results, a Map from
                      \* paper id to EnrichmentResult
  applyReturn,        \* applyEnrichment: the returned array
  apc                 \* "start" before the call, "done" after it

VARIABLES
  dataFile,           \* public/data.json: [readable, papers]
  checkOnly, enrich,  \* main: the flags --check and --enrich
  mainPapers,         \* main: newPapers, the converted candidates
  allPapers,          \* main: allPapers of line 250, None until it is built
  fileCalls,          \* main: the calls of loadExistingPapers and savePapers
                      \* made so far, with what was read or written
  mpc                 \* main: "parsed", "checking", "converted", "enriched",
                      \* "done" after the save, "exit" after process.exit

VARIABLES
  attempts, delay,    \* withRetry: the parameters
  retry               \* withRetry: i, lastError, the calls and waits made so
                      \* far (trace), and how the call ended (pc, value,
                      \* thrown)

VARIABLES
  lookupPaper,        \* enrichPaper: the argument paper
  requests,           \* the calls of getSemanticScholarData and
                      \* getOpenAlexData made so far, each with the outcomes
                      \* of its HTTP requests
  semanticScholarData, openAlexData,   \* enrichPaper: the locals
  enrichResult,       \* enrichPaper: the returned EnrichmentResult
  epc                 \* "doi", "arxiv", "title", "merge", "done"

VARIABLES
  batchPapers,        \* enrichPapers: the argument papers
  batchSizeOption,    \* enrichPapers: options.batchSize, None when not given
  onProgress,         \* enrichPapers: whether options.onProgress is given
  outcomeOf,          \* what enrichPaper resolves with for each paper
  loopI,              \* enrichPapers: i of the loop of line 679
  inflight,           \* positions in batchPapers of the calls of enrichPaper that
                      \* have started and not resolved
  batchResults,       \* the slots of Promise.all resolved so far, by position
  resultsMap,         \* enrichPapers: the Map results
  batches,            \* the batches issued so far, each the set of its
                      \* positions in batchPapers
  progressCalls,      \* the calls of onProgress so far: <<current, total>>
  delays,             \* the waits of line 705 so far
  bpc                 \* "entry", "await", "sleep", "done"

VARIABLES
  markdown,           \* parseResearchMarkdown: the document, as its passages
  sectionResults,     \* what parsePaperSection returned for each section so far
  parsedPapers,       \* parseResearchMarkdown: papers
  seenIdentifiers,    \* parseResearchMarkdown: seenIdentifiers
  ppc                 \* "sections", "done"

VARIABLES
  corpus,             \* the papers handed to savePapers
  fileContent,        \* the text of public/data.json, None when there is no file
  loaded,             \* what loadExistingPapers returned
  stpc                \* "start", "saved", "loaded", "reloaded"

dedupVars == <<newPapers, existingPapers, titleThreshold, cursor, report,
               processedTitles, processedDOIs, processedArxivIds, dpc>>
simVars == <<title1, title2, threshold, similarity, distance, verdict, spc>>
applyVars == <<applyPapers, applyResults, applyReturn, apc>>
mainVars == <<dataFile, checkOnly, enrich, mainPapers, allPapers, fileCalls, mpc>>
retryVars == <<attempts, delay, retry>>
lookupVars == <<lookupPaper, requests, semanticScholarData, openAlexData, enrichResult, epc>>
batchVars == <<batchPapers, batchSizeOption, onProgress, outcomeOf, loopI, inflight,
               batchResults, resultsMap, batches, progressCalls, delays, bpc>>
parseVars == <<markdown, sectionResults, parsedPapers, seenIdentifiers, ppc>>
storeVars == <<corpus, fileContent, loaded, stpc>>
vars == <<dedupVars, simVars, applyVars, mainVars, retryVars, lookupVars, batchVars,
          parseVars, storeVars>>
\* What the steps of one component leave alone.
outsideDedup ==
  <<simVars, applyVars, mainVars, retryVars, lookupVars, batchVars, parseVars, storeVars>>
outsideSim ==
  <<dedupVars, applyVars, mainVars, retryVars, lookupVars, batchVars, parseVars, storeVars>>
outsideApply ==
  <<dedupVars, simVars, mainVars, retryVars, lookupVars, batchVars, parseVars, storeVars>>
outsideMain ==
  <<simVars, applyVars, retryVars, lookupVars, batchVars, parseVars, storeVars>>
outsideRetry ==
  <<dedupVars, simVars, applyVars, mainVars, lookupVars, batchVars, parseVars, storeVars>>
outsideLookup ==
  <<dedupVars, simVars, applyVars, mainVars, retryVars, batchVars, parseVars, storeVars>>
outsideBatch ==
  <<dedupVars, simVars, applyVars, mainVars, retryVars, lookupVars, parseVars, storeVars>>
outsideParse ==
  <<dedupVars, simVars, applyVars, mainVars, retryVars, lookupVars, batchVars, storeVars>>

EmptyReport == [newPapers |-> << >>, duplicates |-> << >>]

\* Lines 161-169: the state on entry to the loop, for every bounded input.
DedupInit ==
  /\ newPapers \in SeqsUpTo(CandidatePool, MaxBatch)
  /\ existingPapers \in {s \in SeqsUpTo(ExistingPool, MaxCorpus) : IsInjective(s)}
  /\ titleThreshold \in Thresholds
  /\ cursor = 1
  /\ report = EmptyReport
  /\ processedTitles = {}
  /\ processedDOIs = {}
  /\ processedArxivIds = {}
  /\ dpc = "loop"

DedupIdle ==
  /\ newPapers = << >>
  /\ existingPapers = << >>
  /\ titleThreshold = DefaultThreshold
  /\ cursor = 1
  /\ report = EmptyReport
  /\ processedTitles = {}
  /\ processedDOIs = {}
  /\ processedArxivIds = {}
  /\ dpc = "done"

\* Lines 173-175
normalizedTitleOf(paper) == trim(toLowerCase(paper.title))
normalizedDOIOf(paper) == IF paper.doi # << >> THEN normalizeDOI(paper.doi) ELSE << >>
normalizedArxivIdOf(paper) ==
  IF paper.arxivId # << >> THEN normalizeArxivId(paper.arxivId) ELSE << >>

\* Only the identifiers are looked up, not the title.
IsInternalDuplicate_idsOnly(paper, titles, dois, arxivIds) ==
  LET normalizedDOI == normalizedDOIOf(paper)
      normalizedArxivId == normalizedArxivIdOf(paper)
  IN \/ normalizedDOI # << >> /\ normalizedDOI \in dois
     \/ normalizedArxivId # << >> /\ normalizedArxivId \in arxivIds

\* Lines 178-182: the condition of the skip.
IsInternalDuplicate(paper, titles, dois, arxivIds) ==
  LET normalizedDOI == normalizedDOIOf(paper)
      normalizedArxivId == normalizedArxivIdOf(paper)
  IN \/ normalizedTitleOf(paper) \in titles
     \/ normalizedDOI # << >> /\ normalizedDOI \in dois
     \/ normalizedArxivId # << >> /\ normalizedArxivId \in arxivIds

InLoop == dpc = "loop" /\ cursor <= Len(newPapers)
Current == newPapers[cursor]
CurrentSkipped ==
  IsInternalDuplicate(Current, processedTitles, processedDOIs, processedArxivIds)

\* Lines 178-184: an internal duplicate is skipped.
SkipInternalDuplicate ==
  /\ InLoop
  /\ CurrentSkipped
  /\ cursor' = cursor + 1
  /\ UNCHANGED <<newPapers, existingPapers, titleThreshold, report,
                 processedTitles, processedDOIs, processedArxivIds, dpc>>
  /\ UNCHANGED outsideDedup

\* The else of line 191 is missing: a reported duplicate is accepted too.
RecordDuplicate_alsoAccepts ==
  /\ InLoop
  /\ ~CurrentSkipped
  /\ LET result == checkDuplicate(Current, existingPapers, titleThreshold)
     IN /\ result.isDuplicate
        /\ report' = [newPapers |-> Append(report.newPapers, cursor),
                      duplicates |-> Append(report.duplicates,
                                            [paper |-> cursor, result |-> result])]
  /\ cursor' = cursor + 1
  /\ UNCHANGED <<newPapers, existingPapers, titleThreshold,
                 processedTitles, processedDOIs, processedArxivIds, dpc>>
  /\ UNCHANGED outsideDedup

\* Lines 187-190: a duplicate of an existing paper is reported.
RecordDuplicate ==
  /\ InLoop
  /\ ~CurrentSkipped
  /\ LET result == checkDuplicate(Current, existingPapers, titleThreshold)
     IN /\ result.isDuplicate
        /\ report' = [report EXCEPT !.duplicates =
                        Append(@, [paper |-> cursor, result |-> result])]
  /\ cursor' = cursor + 1
  /\ UNCHANGED <<newPapers, existingPapers, titleThreshold,
                 processedTitles, processedDOIs, processedArxivIds, dpc>>
  /\ UNCHANGED outsideDedup

\* The title of an accepted paper is not remembered.
AcceptNew_forgetsTitle ==
  /\ InLoop
  /\ ~CurrentSkipped
  /\ ~checkDuplicate(Current, existingPapers, titleThreshold).isDuplicate
  /\ report' = [report EXCEPT !.newPapers = Append(@, cursor)]
  /\ LET normalizedDOI == normalizedDOIOf(Current)
         normalizedArxivId == normalizedArxivIdOf(Current)
     IN /\ processedDOIs' = processedDOIs \cup
             (IF normalizedDOI # << >> THEN {normalizedDOI} ELSE {})
        /\ processedArxivIds' = processedArxivIds \cup
             (IF normalizedArxivId # << >> THEN {normalizedArxivId} ELSE {})
  /\ cursor' = cursor + 1
  /\ UNCHANGED <<newPapers, existingPapers, titleThreshold, processedTitles, dpc>>
  /\ UNCHANGED outsideDedup

\* Lines 191-196: a new paper is accepted and remembered.
AcceptNew ==
  /\ InLoop
  /\ ~CurrentSkipped
  /\ ~checkDuplicate(Current, existingPapers, titleThreshold).isDuplicate
  /\ report' = [report EXCEPT !.newPapers = Append(@, cursor)]
  /\ processedTitles' = processedTitles \cup {normalizedTitleOf(Current)}
  /\ LET normalizedDOI == normalizedDOIOf(Current)
         normalizedArxivId == normalizedArxivIdOf(Current)
     IN /\ processedDOIs' = processedDOIs \cup
             (IF normalizedDOI # << >> THEN {normalizedDOI} ELSE {})
        /\ processedArxivIds' = processedArxivIds \cup
             (IF normalizedArxivId # << >> THEN {normalizedArxivId} ELSE {})
  /\ cursor' = cursor + 1
  /\ UNCHANGED <<newPapers, existingPapers, titleThreshold, dpc>>
  /\ UNCHANGED outsideDedup

\* Line 199
ReturnReport ==
  /\ dpc = "loop"
  /\ cursor > Len(newPapers)
  /\ dpc' = "done"
  /\ UNCHANGED <<newPapers, existingPapers, titleThreshold, cursor, report,
                 processedTitles, processedDOIs, processedArxivIds>>
  /\ UNCHANGED outsideDedup

SimIdle ==
  /\ title1 = << >>
  /\ title2 = << >>
  /\ threshold = DefaultThreshold
  /\ similarity = One
  /\ distance = 0
  /\ verdict = [isDuplicate |-> FALSE]
  /\ spc = "done"

ApplyIdle ==
  /\ applyPapers = << >>
  /\ applyResults = << >>
  /\ applyReturn = << >>
  /\ apc = "done"

MainIdle ==
  /\ dataFile = [readable |-> TRUE, papers |-> << >>]
  /\ checkOnly = FALSE
  /\ enrich = FALSE
  /\ mainPapers = << >>
  /\ allPapers = << >>
  /\ fileCalls = << >>
  /\ mpc = "exit"

RetryIdle ==
  /\ attempts = 0
  /\ delay = 0
  /\ retry = [i |-> 0, lastError |-> << >>, trace |-> << >>, pc |-> "idle",
              value |-> << >>, thrown |-> << >>]

LookupIdle ==
  /\ lookupPaper = << >>
  /\ requests = << >>
  /\ semanticScholarData = << >>
  /\ openAlexData = << >>
  /\ enrichResult = << >>
  /\ epc = "idle"

BatchIdle ==
  /\ batchPapers = << >>
  /\ batchSizeOption = << >>
  /\ onProgress = FALSE
  /\ outcomeOf = << >>
  /\ loopI = 0
  /\ inflight = {}
  /\ batchResults = << >>
  /\ resultsMap = << >>
  /\ batches = << >>
  /\ progressCalls = << >>
  /\ delays = << >>
  /\ bpc = "idle"

outsideStore ==
  <<dedupVars, simVars, applyVars, mainVars, retryVars, lookupVars, batchVars, parseVars>>

ParseIdle ==
  /\ markdown = << >>
  /\ sectionResults = << >>
  /\ parsedPapers = << >>
  /\ seenIdentifiers = {}
  /\ ppc = "idle"

StoreIdle ==
  /\ corpus = << >>
  /\ fileContent = << >>
  /\ loaded = << >>
  /\ stpc = "idle"

\* The components that are at rest while one of them runs.
IdleBut(components) ==
  /\ "dedup" \in components \/ DedupIdle
  /\ "sim" \in components \/ SimIdle
  /\ "apply" \in components \/ ApplyIdle
  /\ "main" \in components \/ MainIdle
  /\ "retry" \in components \/ RetryIdle
  /\ "lookup" \in components \/ LookupIdle
  /\ "batch" \in components \/ BatchIdle
  /\ "parse" \in components \/ ParseIdle
  /\ "store" \in components \/ StoreIdle

\* checkDuplicates, one step per iteration of its loop.
Init == DedupInit /\ IdleBut({"dedup"})
Next ==
  \/ SkipInternalDuplicate
  \/ RecordDuplicate
  \/ AcceptNew
  \/ ReturnReport
Spec == Init /\ [][Next]_vars

\* ----------------------------------------- calls of the similarity engine

SimInit ==
  /\ title1 \in RawTitles
  /\ title2 \in RawTitles
  /\ threshold = DefaultThreshold
  /\ similarity = One
  /\ distance = 0
  /\ verdict = [isDuplicate |-> FALSE]
  /\ spc = "start"

\* calculateTitleSimilarity(title1, title2)
SimilarityCall ==
  /\ spc = "start"
  /\ similarity' = calculateTitleSimilarity(title1, title2)
  /\ spc' = "scored"
  /\ UNCHANGED <<title1, title2, threshold, distance, verdict>>
  /\ UNCHANGED outsideSim

\* levenshteinDistance(title1, title2)
DistanceCall ==
  /\ spc = "scored"
  /\ distance' = levenshteinDistance(title1, title2)
  /\ spc' = "measured"
  /\ UNCHANGED <<title1, title2, threshold, similarity, verdict>>
  /\ UNCHANGED outsideSim

\* checkDuplicate of a candidate titled title1, without identifiers, against
\* a corpus of one record titled title2
ClassifyCall ==
  /\ spc = "measured"
  /\ \E thr \in Thresholds :
       /\ threshold' = thr
       /\ verdict' = checkDuplicate(Candidate(title1, << >>, << >>),
                                    <<Existing(title2, << >>, << >>)>>, thr)
  /\ spc' = "done"
  /\ UNCHANGED <<title1, title2, similarity, distance>>
  /\ UNCHANGED outsideSim

InitSim == SimInit /\ IdleBut({"sim"})
NextSim ==
  \/ SimilarityCall
  \/ DistanceCall
  \/ ClassifyCall
SpecSim == InitSim /\ [][NextSim]_vars

\* --------------------------------------------------------- applyEnrichment

\* An optional value of a Paper or of a patch: << >> when the property is
\* undefined, <<v>> when it holds v.
None == << >>
Some(v) == <<v>>
\* JavaScript truthiness of an optional number: undefined and 0 are falsy.
TruthyNumber(n) == n # None /\ n[1] # 0

\* new Date().getFullYear() of line 731, at the time of the run.
CurrentYear == 2026

\* Lines 728-730 with the operands of ?? exchanged: the patch wins.
Coalesce_patchFirst(own, other) == IF other # None THEN other ELSE own
\* a ?? b of lines 728-730
Coalesce(own, other) == IF own # None THEN own ELSE other

\* Line 731: paper.year || result.data.year || new Date().getFullYear()
YearOf(paper, data) ==
  IF TruthyNumber(paper.year) THEN paper.year
  ELSE IF TruthyNumber(data.year) THEN data.year
  ELSE Some(CurrentYear)

\* Lines 732-734; an empty array of authors in the patch is truthy.
AuthorsOf(paper, data) ==
  IF Len(paper.authors) = 1 /\ paper.authors[1] = "Unknown"
  THEN (IF data.authors # None THEN data.authors[1] ELSE paper.authors)
  ELSE paper.authors

\* results.get(paper.id) of line 720; None when the map has no entry.
ResultFor(paper, results) ==
  IF paper.id \in DOMAIN results THEN Some(results[paper.id]) ELSE None

\* Lines 719-736: the callback of papers.map.
applyEnrichmentTo(paper, results) ==
  LET result == ResultFor(paper, results) IN
  IF result = None \/ ~result[1].success \/ result[1].data = None
  THEN paper
  ELSE LET data == result[1].data[1] IN
       [paper EXCEPT
          !.citationCount = Coalesce(paper.citationCount, data.citationCount),
          !.influentialCitations =
             Coalesce(paper.influentialCitations, data.influentialCitations),
          !.journal = Coalesce(paper.journal, data.journal),
          !.year = YearOf(paper, data),
          !.authors = AuthorsOf(paper, data)]

applyEnrichment(papers, results) ==
  [k \in 1..Len(papers) |-> applyEnrichmentTo(papers[k], results)] \o << >>

\* The enrichable fields of a Paper.
PaperRecord(id, citationCount, influentialCitations, journal, year, authors) ==
  [id |-> id, citationCount |-> citationCount,
   influentialCitations |-> influentialCitations, journal |-> journal,
   year |-> year, authors |-> authors]

\* Partial<Paper> as mergeApiResponses builds it.
Patch(citationCount, influentialCitations, journal, year, authors) ==
  [citationCount |-> citationCount,
   influentialCitations |-> influentialCitations, journal |-> journal,
   year |-> year, authors |-> authors]

AuthorLists == {<< >>, <<"Unknown">>, <<"Ann">>, <<"Unknown", "Bob">>}

ApplyPaperPool ==
  { PaperRecord("1", c, f, j, y, a) :
      c \in {None, Some(0), Some(5)}, f \in {None, Some(3)},
      j \in {None, Some("JournalA")}, y \in {None, Some(0), Some(2020)},
      a \in AuthorLists }

ApplySecondPool ==
  { PaperRecord("2", None, None, None, Some(2021), <<"Unknown">>),
    PaperRecord("2", Some(0), Some(0), Some("JournalA"), Some(2021), <<"Dee">>) }

PatchPool ==
  { Patch(c, f, j, y, a) :
      c \in {None, Some(0), Some(9)}, f \in {None, Some(7)},
      j \in {None, Some("JournalB")}, y \in {None, Some(1999)},
      a \in {None, Some(<< >>), Some(<<"Cy">>)} }

\* EnrichmentResult of lines 349-354.
Success(source, data) == [success |-> TRUE, source |-> source, data |-> Some(data)]
Failure(error) == [success |-> FALSE, error |-> error, data |-> None]

ApplyResultPool ==
  { Success("semantic_scholar", d) : d \in PatchPool }
    \cup { Failure("No data found from any API"),
           [success |-> TRUE, source |-> "openalex", data |-> None] }

SecondResultPool == {Success("openalex", Patch(Some(4), None, Some("JournalB"), None, Some(<<"Eve">>)))}

\* The maps with an entry for some of the ids "1" and "2".
ApplyResultMaps ==
  UNION { [ids -> ApplyResultPool \cup SecondResultPool] : ids \in SUBSET {"1", "2"} }

ApplyInit ==
  /\ applyPapers \in { <<p>> : p \in ApplyPaperPool }
                       \cup { <<p, q>> : p \in ApplyPaperPool, q \in ApplySecondPool }
  /\ applyResults \in
       { m \in ApplyResultMaps :
           /\ "1" \in DOMAIN m => m["1"] \in ApplyResultPool
           /\ "2" \in DOMAIN m => m["2"] \in SecondResultPool }
  /\ applyReturn = << >>
  /\ apc = "start"

\* applyEnrichment(applyPapers, applyResults)
ApplyEnrichmentCall ==
  /\ apc = "start"
  /\ applyReturn' = applyEnrichment(applyPapers, applyResults)
  /\ apc' = "done"
  /\ UNCHANGED <<applyPapers, applyResults>>
  /\ UNCHANGED outsideApply

InitApply == ApplyInit /\ IdleBut({"apply"})
NextApply == ApplyEnrichmentCall
SpecApply == InitApply /\ [][NextApply]_vars

\* ----------------------------------------------------- main of add-papers

DigitValue ==
  [c \in Digits |->
     CASE c = "0" -> 0 [] c = "1" -> 1 [] c = "2" -> 2 [] c = "3" -> 3
       [] c = "4" -> 4 [] c = "5" -> 5 [] c = "6" -> 6 [] c = "7" -> 7
       [] c = "8" -> 8 [] c = "9" -> 9]
DigitOf == <<"0", "1", "2", "3", "4", "5", "6", "7", "8", "9">>

\* The value of the longest run of digits of s from position k on, continuing
\* the value acc.
RECURSIVE ParseDigits(_, _, _)
ParseDigits(s, k, acc) ==
  IF k > Len(s) \/ ~IsDigit(s[k]) THEN acc
  ELSE LET next == 10 * acc + DigitValue[s[k]] IN
       IF next >= 0 THEN ParseDigits(s, k + 1, next) ELSE next

\* parseInt(s, 10): leading white space and one sign are skipped, the digits
\* that follow are read up to the first other character; None stands for NaN.
parseInt(s) ==
  LET body == TrimLeft(s)
      signed == body # << >> /\ body[1] \in {"+", "-"}
      digits == IF signed THEN DropFirst(body, 1) ELSE body
  IN IF digits = << >> \/ ~IsDigit(digits[1]) THEN None
     ELSE LET magnitude == ParseDigits(digits, 1, 0) IN
          Some(IF signed /\ body[1] = "-" THEN 0 - magnitude ELSE magnitude)

\* String(n) of a natural number.
RECURSIVE NatToString(_)
NatToString(n) ==
  IF n < 10 THEN <<DigitOf[n + 1]>>
  ELSE LET head == NatToString(n \div 10) IN
       IF Len(head) > 0 THEN Append(head, DigitOf[(n % 10) + 1]) ELSE head

\* Lines 58-70
generateId(papers) ==
  LET nums == { parseInt(papers[k].id)[1] :
                  k \in { j \in DOMAIN papers : parseInt(papers[j].id) # None } }
      maxNumericId == IF \E n \in nums : n > 0
                      THEN CHOOSE n \in nums : \A m \in nums : m <= n
                      ELSE 0
  IN NatToString(maxNumericId + 1)

\* crypto.randomUUID() of parseResearch.ts line 331: some fresh token.
Uuids == {<<"u", "-", "1">>, <<"u", "-", "2">>}

\* ExtractedPaper, parseResearch.ts lines 9-17
Extracted(title, authors, year, doi, arxivId, url) ==
  [title |-> title, authors |-> authors, year |-> year, doi |-> doi,
   arxivId |-> arxivId, url |-> url]

\* toPaper, parseResearch.ts lines 321-342; the properties a new Paper does
\* not have yet are None.
toPaper(extracted, uuid) ==
  [id |-> IF extracted.doi # << >> THEN extracted.doi
          ELSE IF extracted.arxivId # << >> THEN extracted.arxivId
          ELSE uuid,
   title |-> extracted.title,
   authors |-> extracted.authors,
   year |-> IF TruthyNumber(extracted.year) THEN extracted.year ELSE Some(CurrentYear),
   doi |-> extracted.doi,
   url |-> extracted.url,
   citationCount |-> None,
   influentialCitations |-> None,
   journal |-> None]

\* Lines 199-207: the callback of report.newPapers.map; index counts from 0.
ConvertedPaper(extracted, index, existing, uuid) ==
  LET paper == toPaper(extracted, uuid) IN
  IF extracted.doi = << >> /\ extracted.arxivId = << >>
  THEN LET baseId == parseInt(generateId(existing))[1] IN
       [paper EXCEPT !.id = NatToString(baseId + index)]
  ELSE paper

\* loadExistingPapers, lines 44-52: the parsed file, [] when reading or
\* parsing fails.
loadExistingPapers_ignoringFailure(file) == file.papers
loadExistingPapers(file) == IF file.readable THEN file.papers ELSE << >>

\* The record of a call on public/data.json: a read with whether readFileSync
\* or JSON.parse threw, a write with the papers handed to savePapers.
ReadCall(file) == [op |-> "read", failed |-> ~file.readable, papers |-> << >>]
WriteCall(papers) == [op |-> "write", failed |-> FALSE, papers |-> papers]

\* A record of data.json, with the properties main and checkDuplicates read.
Stored(id, title, doi, url) == [id |-> id, title |-> title, doi |-> doi, url |-> url]

IdSeven == <<"7">>
TitleXyz == <<"x", "y", "z">>
UrlPublisher == <<"h", "t", "t", "p", "s", ":", "/", "/", "p", "u", "b", ".", "o", "r", "g", "/", "1">>
UrlDoiBare == <<"h", "t", "t", "p", "s", ":", "/", "/", "d", "o", "i", ".", "o", "r", "g", "/", "1", "0", ".", "1", "/", "a">>
UrlArxivPlain == <<"h", "t", "t", "p", "s", ":", "/", "/", "a", "r", "x", "i", "v", ".", "o", "r", "g", "/", "a", "b", "s", "/", "2", "3", "0", "1", ".", "0", "0", "0", "0", "1">>

\* Candidates as parsePaperSection builds them (lines 232-247): the URL is
\* the arXiv URL of the arXiv id, else the doi.org URL of the DOI.
MainCandidatePool ==
  { Extracted(TitleBase, <<"Unknown">>, None, << >>, << >>, << >>),
    Extracted(TitleKlm, <<"Ann">>, Some(2020), << >>, << >>, << >>),
    Extracted(TitleOther, <<"Unknown">>, Some(2021), DoiBare, << >>, UrlDoiBare),
    Extracted(TitleNear, <<"Bob">>, None, << >>, ArxivPlain, UrlArxivPlain) }

\* Records of data.json: one with a hand-written numeric id, one added from
\* a DOI, one added from an arXiv id, and one added from an arXiv id whose
\* url was edited afterwards to point to the published version.
MainStoredPool ==
  { Stored(IdSeven, TitleXyz, << >>, << >>),
    Stored(DoiBare, TitleOther, DoiBare, UrlDoiBare),
    Stored(ArxivPlain, TitleNear, << >>, UrlArxivPlain),
    Stored(ArxivPlain, TitleLong, << >>, UrlPublisher) }

HasUniqueIds(papers) == \A i, j \in DOMAIN papers : papers[i].id = papers[j].id => i = j

\* The outcomes enrichPapers may return for the new papers: one per id.
MainResultPool ==
  { Failure("No data found from any API"),
    Success("semantic_scholar",
            Patch(Some(9), None, Some("JournalB"), Some(1999), Some(<<"Cy">>))) }

\* main after parseResearchMarkdown (line 171): the candidates, the file and
\* the flags.
MainInit ==
  /\ newPapers \in SeqsUpTo(MainCandidatePool, MaxBatch)
  /\ dataFile \in
       { [readable |-> r, papers |-> s] :
           r \in BOOLEAN,
           s \in { c \in SeqsUpTo(MainStoredPool, MaxCorpus) : HasUniqueIds(c) } }
  /\ checkOnly \in BOOLEAN
  /\ enrich \in BOOLEAN
  /\ mainPapers = << >>
  /\ allPapers = << >>
  /\ fileCalls = << >>
  /\ mpc = "parsed"
  /\ existingPapers = << >>
  /\ titleThreshold = DefaultThreshold
  /\ cursor = 1
  /\ report = EmptyReport
  /\ processedTitles = {}
  /\ processedDOIs = {}
  /\ processedArxivIds = {}
  /\ dpc = "done"

\* Lines 173-177
ExitNoCandidates ==
  /\ mpc = "parsed"
  /\ newPapers = << >>
  /\ mpc' = "exit"
  /\ UNCHANGED <<dataFile, checkOnly, enrich, mainPapers, allPapers, fileCalls>>
  /\ UNCHANGED <<dedupVars, outsideMain>>

\* Lines 182-183: the corpus is loaded and checkDuplicates is entered, with
\* the default threshold.
LoadExistingPapers ==
  /\ mpc = "parsed"
  /\ newPapers # << >>
  /\ existingPapers' = loadExistingPapers(dataFile)
  /\ cursor' = 1
  /\ report' = EmptyReport
  /\ processedTitles' = {}
  /\ processedDOIs' = {}
  /\ processedArxivIds' = {}
  /\ dpc' = "loop"
  /\ mpc' = "checking"
  /\ fileCalls' = Append(fileCalls, ReadCall(dataFile))
  /\ UNCHANGED <<newPapers, titleThreshold>>
  /\ UNCHANGED <<dataFile, checkOnly, enrich, mainPapers, allPapers>>
  /\ UNCHANGED outsideMain

ReportReady == mpc = "checking" /\ dpc = "done"

\* Lines 188-191
ExitCheckOnly ==
  /\ ReportReady
  /\ checkOnly
  /\ mpc' = "exit"
  /\ UNCHANGED <<dataFile, checkOnly, enrich, mainPapers, allPapers, fileCalls>>
  /\ UNCHANGED <<dedupVars, outsideMain>>

\* Lines 193-196
ExitNothingNew ==
  /\ ReportReady
  /\ ~checkOnly
  /\ report.newPapers = << >>
  /\ mpc' = "exit"
  /\ UNCHANGED <<dataFile, checkOnly, enrich, mainPapers, allPapers, fileCalls>>
  /\ UNCHANGED <<dedupVars, outsideMain>>

\* Lines 198-207
ConvertToPaper ==
  /\ ReportReady
  /\ ~checkOnly
  /\ report.newPapers # << >>
  /\ \E uuids \in [DOMAIN report.newPapers -> Uuids] :
       mainPapers' =
         [k \in DOMAIN report.newPapers |->
            ConvertedPaper(newPapers[report.newPapers[k]], k - 1,
                           existingPapers, uuids[k])] \o << >>
  /\ mpc' = "converted"
  /\ UNCHANGED <<dataFile, checkOnly, enrich, allPapers, fileCalls>>
  /\ UNCHANGED <<dedupVars, outsideMain>>

\* Lines 212-247: enrichPapers returns one outcome per id, applyEnrichment
\* merges them into the new papers.
EnrichNewPapers ==
  /\ mpc = "converted"
  /\ enrich
  /\ \E enrichmentResults \in
          [{mainPapers[k].id : k \in DOMAIN mainPapers} -> MainResultPool] :
       mainPapers' = applyEnrichment(mainPapers, enrichmentResults)
  /\ mpc' = "enriched"
  /\ UNCHANGED <<dataFile, checkOnly, enrich, allPapers, fileCalls>>
  /\ UNCHANGED <<dedupVars, outsideMain>>

\* Only the new papers are written.
SavePapers_newOnly ==
  /\ \/ mpc = "converted" /\ ~enrich
     \/ mpc = "enriched"
  /\ allPapers' = mainPapers
  /\ dataFile' = [readable |-> TRUE, papers |-> mainPapers]
  /\ fileCalls' = Append(fileCalls, WriteCall(mainPapers))
  /\ mpc' = "done"
  /\ UNCHANGED <<checkOnly, enrich, mainPapers>>
  /\ UNCHANGED <<dedupVars, outsideMain>>

\* Lines 249-251, and savePapers of lines 54-56
SavePapers ==
  /\ \/ mpc = "converted" /\ ~enrich
     \/ mpc = "enriched"
  /\ allPapers' = existingPapers \o mainPapers
  /\ dataFile' = [readable |-> TRUE, papers |-> existingPapers \o mainPapers]
  /\ fileCalls' = Append(fileCalls, WriteCall(existingPapers \o mainPapers))
  /\ mpc' = "done"
  /\ UNCHANGED <<checkOnly, enrich, mainPapers>>
  /\ UNCHANGED <<dedupVars, outsideMain>>

InitMain == MainInit /\ IdleBut({"main", "dedup"})
NextMain ==
  \/ ExitNoCandidates
  \/ LoadExistingPapers
  \/ SkipInternalDuplicate
  \/ RecordDuplicate
  \/ AcceptNew
  \/ ReturnReport
  \/ ExitCheckOnly
  \/ ExitNothingNew
  \/ ConvertToPaper
  \/ EnrichNewPapers
  \/ SavePapers
SpecMain == InitMain /\ [][NextMain]_vars

\* --------------------------------------------------------------- withRetry

\* String.prototype.includes
Includes(s, p) == \E at \in 1..(Len(s) - Len(p) + 1) : OccursAt(s, p, at)

\* CONFIG.retryAttempts and CONFIG.retryDelay, lines 367-368
RetryAttempts == 3
RetryDelay == 1000

\* What one invocation of the wrapped call does: it resolves with a response
\* or rejects with an error.  The wrapped calls of lines 464-470 and 509-515
\* reject with '... API error: <status>' when the response is not ok, and
\* with the error of fetch when the request is aborted by the timeout of
\* fetchWithTimeout (line 425) or fails in the network.
Resolves(body) == [ok |-> TRUE, body |-> body]
Rejects(message) == [ok |-> FALSE, message |-> message]
ApiErrorPrefix == <<"A", "P", "I", " ", "e", "r", "r", "o", "r", ":", " ">>
ApiError(status) == Rejects(ApiErrorPrefix \o NatToString(status))
TimedOut == Rejects(<<"T", "h", "i", "s", " ", "o", "p", "e", "r", "a", "t", "i", "o", "n", " ", "w", "a", "s", " ", "a", "b", "o", "r", "t", "e", "d">>)
NetworkDown == Rejects(<<"f", "e", "t", "c", "h", " ", "f", "a", "i", "l", "e", "d">>)
RetryFailed == <<"R", "e", "t", "r", "y", " ", "f", "a", "i", "l", "e", "d">>

\* Line 397, never true: a 404 is retried like any other failure.
IsNotFound_never(error) == FALSE
\* Line 397
IsNotFound(error) == Includes(error.message, <<"4", "0", "4">>)
\* Line 402
IsRateLimited(error) == Includes(error.message, <<"4", "2", "9">>)

\* Lines 403 and 408, counting the attempts from 0.
Backoff_fromZero(wait, i, error) ==
  IF IsRateLimited(error) THEN wait * i * 5 ELSE wait * i
\* Lines 403 and 408: the wait after the failure of attempt i + 1.
Backoff(wait, i, error) ==
  IF IsRateLimited(error) THEN wait * (i + 1) * 5 ELSE wait * (i + 1)

\* Line 390, with <= in place of <.
LoopContinues_oneMore(i, maxAttempts) == i <= maxAttempts
\* Line 390: the condition of the for loop.
LoopContinues(i, maxAttempts) == i < maxAttempts

CallEvent(attempt, outcome) == [type |-> "call", attempt |-> attempt, outcome |-> outcome]
SleepEvent(ms) == [type |-> "sleep", ms |-> ms]

\* Line 413, reached when the loop condition fails.
Exhausted(st) ==
  [st EXCEPT !.pc = "thrown",
             !.thrown = IF st.lastError # << >> THEN st.lastError
                        ELSE <<[message |-> RetryFailed, attempt |-> 0]>>]

\* Lines 388-390: the state on entry, and the first test of the loop condition.
RetryStart(maxAttempts) ==
  LET st == [i |-> 0, lastError |-> << >>, trace |-> << >>, pc |-> "loop",
             value |-> << >>, thrown |-> << >>]
  IN IF LoopContinues(0, maxAttempts) THEN st ELSE Exhausted(st)

\* The end of an iteration that did not leave the function: i++, the loop
\* condition, and line 413 when it fails.
NextIteration(st, maxAttempts) ==
  LET stepped == [st EXCEPT !.i = st.i + 1] IN
  IF LoopContinues(stepped.i, maxAttempts) THEN stepped ELSE Exhausted(stepped)

\* Lines 391-410: one iteration of the loop, the wrapped call ending as
\* outcome says.
RetryIteration(st, maxAttempts, wait, outcome) ==
  LET called == [st EXCEPT !.trace = Append(st.trace, CallEvent(st.i + 1, outcome))] IN
  IF outcome.ok
  THEN [called EXCEPT !.pc = "returned",
                      !.value = <<[body |-> outcome.body, attempt |-> st.i + 1]>>]
  ELSE LET error == [message |-> outcome.message, attempt |-> st.i + 1]
           failed == [called EXCEPT !.lastError = <<error>>]
       IN IF IsNotFound(error)
          THEN [failed EXCEPT !.pc = "thrown", !.thrown = <<error>>]
          ELSE IF IsRateLimited(error) \/ st.i < maxAttempts - 1
          THEN NextIteration(
                 [failed EXCEPT !.trace = Append(failed.trace,
                                                 SleepEvent(Backoff(wait, st.i, error)))],
                 maxAttempts)
          ELSE NextIteration(failed, maxAttempts)

\* withRetry (lines 383-414) run to its end, the invocations of the wrapped
\* call ending as outcomes says, in order.
RECURSIVE RunRetry(_, _, _, _)
RunRetry(st, maxAttempts, wait, outcomes) ==
  IF st.pc # "loop" \/ outcomes = << >> THEN st
  ELSE LET next == RetryIteration(st, maxAttempts, wait, Head(outcomes)) IN
       IF next.pc = "loop" THEN RunRetry(next, maxAttempts, wait, Tail(outcomes))
       ELSE next
withRetry(outcomes, maxAttempts, wait) ==
  RunRetry(RetryStart(maxAttempts), maxAttempts, wait, outcomes)

\* Most attempts drawn for a call of withRetry.
MaxAttempts == 3
BodyA == "bodyA"
BodyB == "bodyB"
FnOutcomes ==
  { Resolves(BodyA), Resolves(BodyB), ApiError(404), ApiError(429), ApiError(500),
    TimedOut, NetworkDown }

RetryInit ==
  /\ attempts \in 0..MaxAttempts
  /\ delay \in {RetryDelay, 200}
  /\ retry = RetryStart(attempts)

Looping == retry.pc = "loop"

\* Line 392: the wrapped call resolves.
RetrySucceeds ==
  /\ Looping
  /\ \E outcome \in FnOutcomes :
       /\ outcome.ok
       /\ retry' = RetryIteration(retry, attempts, delay, outcome)
  /\ UNCHANGED <<attempts, delay>>
  /\ UNCHANGED outsideRetry

\* Lines 396-399: the wrapped call rejects with a 404.
RetryNotFound ==
  /\ Looping
  /\ \E outcome \in FnOutcomes :
       /\ ~outcome.ok
       /\ Includes(outcome.message, <<"4", "0", "4">>)
       /\ retry' = RetryIteration(retry, attempts, delay, outcome)
  /\ UNCHANGED <<attempts, delay>>
  /\ UNCHANGED outsideRetry

\* Lines 401-405: the wrapped call rejects with a 429.
RetryRateLimited ==
  /\ Looping
  /\ \E outcome \in FnOutcomes :
       /\ ~outcome.ok
       /\ ~Includes(outcome.message, <<"4", "0", "4">>)
       /\ Includes(outcome.message, <<"4", "2", "9">>)
       /\ retry' = RetryIteration(retry, attempts, delay, outcome)
  /\ UNCHANGED <<attempts, delay>>
  /\ UNCHANGED outsideRetry

\* Lines 407-409: the wrapped call rejects with anything else.
RetryOtherFailure ==
  /\ Looping
  /\ \E outcome \in FnOutcomes :
       /\ ~outcome.ok
       /\ ~Includes(outcome.message, <<"4", "0", "4">>)
       /\ ~Includes(outcome.message, <<"4", "2", "9">>)
       /\ retry' = RetryIteration(retry, attempts, delay, outcome)
  /\ UNCHANGED <<attempts, delay>>
  /\ UNCHANGED outsideRetry

InitRetry == RetryInit /\ IdleBut({"retry"})
NextRetry ==
  \/ RetrySucceeds
  \/ RetryNotFound
  \/ RetryRateLimited
  \/ RetryOtherFailure
SpecRetry == InitRetry /\ [][NextRetry]_vars

\* ------------------------------------------------------------- enrichPaper

\* JavaScript truthiness of an optional string: undefined and '' are falsy.
TruthyString(s) == s # None /\ s[1] # ""

\* SemanticScholarResponse and OpenAlexResponse, with the properties
\* mergeApiResponses reads.
SSResponse(citationCount, influentialCitationCount, year, venue, authors) ==
  [citationCount |-> citationCount,
   influentialCitationCount |-> influentialCitationCount,
   year |-> year, venue |-> venue, authors |-> authors]
OASource(display_name, issn_l, h_index, citedness) ==
  [display_name |-> display_name, issn_l |-> issn_l, h_index |-> h_index,
   citedness |-> citedness]
OAResponse(cited_by_count, source, authorships) ==
  [cited_by_count |-> cited_by_count, source |-> source, authorships |-> authorships]

\* Journal of types.ts
Journal(name, issn, hIndex, twoYearCitedness) ==
  [name |-> name, issn |-> issn, hIndex |-> hIndex,
   twoYearCitedness |-> twoYearCitedness]

\* .filter(Boolean) of lines 584 and 591 on a list of optional names.
RECURSIVE TruthyNames(_)
TruthyNames(names) ==
  IF names = << >> THEN << >>
  ELSE IF TruthyString(Head(names)) THEN <<Head(names)[1]>> \o TruthyNames(Tail(names))
  ELSE TruthyNames(Tail(names))

\* Lines 556-578
MergedJournal(semanticScholar, openAlex) ==
  IF openAlex # None /\ openAlex[1].source # None
  THEN LET source == openAlex[1].source[1] IN
       Some(Journal(IF TruthyString(source.display_name) THEN source.display_name[1]
                    ELSE "Unknown",
                    IF TruthyString(source.issn_l) THEN source.issn_l ELSE None,
                    IF TruthyNumber(source.h_index) THEN source.h_index ELSE None,
                    IF TruthyNumber(source.citedness) THEN source.citedness ELSE None))
  ELSE IF semanticScholar # None /\ TruthyString(semanticScholar[1].venue)
  THEN Some(Journal(semanticScholar[1].venue[1], None, None, None))
  ELSE None

\* Lines 580-595
MergedAuthors(semanticScholar, openAlex) ==
  IF semanticScholar # None /\ semanticScholar[1].authors # None
       /\ semanticScholar[1].authors[1] # << >>
  THEN LET authors == TruthyNames(semanticScholar[1].authors[1]) IN
       IF authors # << >> THEN Some(authors) ELSE None
  ELSE IF openAlex # None /\ openAlex[1].authorships # None
            /\ openAlex[1].authorships[1] # << >>
  THEN LET authors == TruthyNames(openAlex[1].authorships[1]) IN
       IF authors # << >> THEN Some(authors) ELSE None
  ELSE None

mergeApiResponses_openAlexFirst(semanticScholar, openAlex) ==
  Patch(IF openAlex # None /\ openAlex[1].cited_by_count # None
        THEN openAlex[1].cited_by_count
        ELSE IF semanticScholar # None THEN semanticScholar[1].citationCount
        ELSE None,
        IF semanticScholar # None THEN semanticScholar[1].influentialCitationCount
        ELSE None,
        MergedJournal(semanticScholar, openAlex),
        IF semanticScholar # None /\ TruthyNumber(semanticScholar[1].year)
        THEN semanticScholar[1].year ELSE None,
        MergedAuthors(semanticScholar, openAlex))
\* mergeApiResponses, lines 533-598; a null argument is None.
mergeApiResponses(semanticScholar, openAlex) ==
  Patch(IF semanticScholar # None /\ semanticScholar[1].citationCount # None
        THEN semanticScholar[1].citationCount
        ELSE IF openAlex # None /\ openAlex[1].cited_by_count # None
        THEN openAlex[1].cited_by_count
        ELSE None,
        IF semanticScholar # None THEN semanticScholar[1].influentialCitationCount
        ELSE None,
        MergedJournal(semanticScholar, openAlex),
        IF semanticScholar # None /\ TruthyNumber(semanticScholar[1].year)
        THEN semanticScholar[1].year ELSE None,
        MergedAuthors(semanticScholar, openAlex))

\* What response.json() gives: a work, a page of search results, or a
\* rejection when the text is not JSON.
WorkBody(work) == [json |-> "work", work |-> work]
SearchBody(hits) == [json |-> "search", hits |-> hits]
InvalidBody == [json |-> "invalid"]

\* The object a page of search results is when it is read as a work: none of
\* the properties mergeApiResponses reads.
PageAsSSResponse == SSResponse(None, None, None, None, None)
PageAsOAResponse == OAResponse(None, None, None)

\* Lines 463-483 with lines 464-470 calling the wrapped request once.
RequestOutcome_noRetry(outcomes) == withRetry(outcomes, 1, RetryDelay)
\* Lines 464-470 and 509-515: withRetry with its default parameters.
RequestOutcome(outcomes) == withRetry(outcomes, RetryAttempts, RetryDelay)

\* Lines 472-483 and 517-527: the data of the response, null (None) when
\* withRetry threw or the body is not JSON.
ResponseData(type, outcomes, pageAsResponse) ==
  LET ended == RequestOutcome(outcomes) IN
  IF ended.pc # "returned" THEN None
  ELSE LET body == ended.value[1].body IN
       IF body.json = "invalid" THEN None
       ELSE IF body.json = "search"
       THEN (IF type = "title" /\ body.hits # << >> THEN Some(body.hits[1])
             ELSE Some(pageAsResponse))
       ELSE Some(body.work)

\* getSemanticScholarData, lines 441-484
getSemanticScholarData(type, outcomes) == ResponseData(type, outcomes, PageAsSSResponse)
\* getOpenAlexData, lines 489-528
getOpenAlexData(type, outcomes) == ResponseData(type, outcomes, PageAsOAResponse)

SsWorkA == SSResponse(Some(0), Some(2), Some(2017), Some("NeurIPS"), Some(<<Some("Ann"), Some("")>>))
SsWorkB == SSResponse(Some(12), None, None, Some(""), None)
OaWorkA ==
  OAResponse(Some(40), Some(OASource(Some("Nature"), Some("0028-0836"), Some(0), Some(3))),
             Some(<<Some("Bea"), None>>))
OaWorkB == OAResponse(None, None, None)

\* The outcomes of the requests of one call of a client: a first answer, a
\* 404, two rate-limit failures before an answer or before a third one, a
\* server error before an answer, three timeouts.
OutcomeSeqs(bodies) ==
  { <<Resolves(b)>> : b \in bodies \cup {InvalidBody} }
    \cup { <<ApiError(429), ApiError(429), Resolves(b)>> : b \in bodies }
    \cup { <<ApiError(500), Resolves(b)>> : b \in bodies }
    \cup { <<ApiError(404)>>,
           <<ApiError(429), ApiError(429), ApiError(429)>>,
           <<TimedOut, TimedOut, TimedOut>> }

SsWorkBodies == {WorkBody(SsWorkA), WorkBody(SsWorkB)}
OaWorkBodies == {WorkBody(OaWorkA), WorkBody(OaWorkB)}
SsSearchBodies == {SearchBody(<<SsWorkA, SsWorkB>>), SearchBody(<< >>)}
OaSearchBodies == {SearchBody(<<OaWorkA>>), SearchBody(<< >>)}

Request(source, type, outcomes) == [source |-> source, type |-> type, outcomes |-> outcomes]

\* Partial<Paper>: the properties enrichPaper reads.
LookupPapers ==
  { [doi |-> d, url |-> u, title |-> ti] :
      d \in {<< >>, DoiBare}, u \in {<< >>, UrlArxivPlain, UrlPublisher},
      ti \in {<< >>, TitleBase} }

LookupInit ==
  /\ lookupPaper \in LookupPapers
  /\ requests = << >>
  /\ semanticScholarData = None
  /\ openAlexData = None
  /\ enrichResult = None
  /\ epc = "doi"

\* Lines 611-617, paper.doi set: both clients are asked for the DOI.
LookupByDoi ==
  /\ epc = "doi"
  /\ lookupPaper.doi # << >>
  /\ \E ss \in OutcomeSeqs(SsWorkBodies), oa \in OutcomeSeqs(OaWorkBodies) :
       /\ semanticScholarData' = getSemanticScholarData("doi", ss)
       /\ openAlexData' = getOpenAlexData("doi", oa)
       /\ requests' = requests \o <<Request("semantic_scholar", "doi", ss),
                                    Request("openalex", "doi", oa)>>
  /\ epc' = "arxiv"
  /\ UNCHANGED <<lookupPaper, enrichResult>>
  /\ UNCHANGED outsideLookup

\* Line 612, paper.doi not set
SkipDoi ==
  /\ epc = "doi"
  /\ lookupPaper.doi = << >>
  /\ epc' = "arxiv"
  /\ UNCHANGED <<lookupPaper, requests, semanticScholarData, openAlexData, enrichResult>>
  /\ UNCHANGED outsideLookup

NeedsArxiv ==
  /\ semanticScholarData = None
  /\ lookupPaper.url # << >>
  /\ existingArxivMatch(lookupPaper.url) # << >>

\* Lines 619-625, the URL is an arXiv URL and Semantic Scholar gave nothing
LookupByArxiv ==
  /\ epc = "arxiv"
  /\ NeedsArxiv
  /\ \E ss \in OutcomeSeqs(SsWorkBodies) :
       /\ semanticScholarData' = getSemanticScholarData("arxiv", ss)
       /\ requests' = Append(requests, Request("semantic_scholar", "arxiv", ss))
  /\ epc' = "title"
  /\ UNCHANGED <<lookupPaper, openAlexData, enrichResult>>
  /\ UNCHANGED outsideLookup

\* Lines 620-622, no arXiv request
SkipArxiv ==
  /\ epc = "arxiv"
  /\ ~NeedsArxiv
  /\ epc' = "title"
  /\ UNCHANGED <<lookupPaper, requests, semanticScholarData, openAlexData, enrichResult>>
  /\ UNCHANGED outsideLookup

NeedsTitle ==
  /\ semanticScholarData = None
  /\ openAlexData = None
  /\ lookupPaper.title # << >>

\* Lines 627-633: both clients are asked for the title.
LookupByTitle ==
  /\ epc = "title"
  /\ NeedsTitle
  /\ \E ss \in OutcomeSeqs(SsSearchBodies), oa \in OutcomeSeqs(OaSearchBodies) :
       /\ semanticScholarData' = getSemanticScholarData("title", ss)
       /\ openAlexData' = getOpenAlexData("title", oa)
       /\ requests' = requests \o <<Request("semantic_scholar", "title", ss),
                                    Request("openalex", "title", oa)>>
  /\ epc' = "merge"
  /\ UNCHANGED <<lookupPaper, enrichResult>>
  /\ UNCHANGED outsideLookup

\* Line 628, no title search
SkipTitle ==
  /\ epc = "title"
  /\ ~NeedsTitle
  /\ epc' = "merge"
  /\ UNCHANGED <<lookupPaper, requests, semanticScholarData, openAlexData, enrichResult>>
  /\ UNCHANGED outsideLookup

\* Lines 635-641
ReturnNoData ==
  /\ epc = "merge"
  /\ semanticScholarData = None
  /\ openAlexData = None
  /\ enrichResult' = Some(Failure("No data found from any API"))
  /\ epc' = "done"
  /\ UNCHANGED <<lookupPaper, requests, semanticScholarData, openAlexData>>
  /\ UNCHANGED outsideLookup

\* Lines 643-650
ReturnEnriched ==
  /\ epc = "merge"
  /\ semanticScholarData # None \/ openAlexData # None
  /\ enrichResult' =
       Some(Success(IF semanticScholarData # None THEN "semantic_scholar" ELSE "openalex",
                    mergeApiResponses(semanticScholarData, openAlexData)))
  /\ epc' = "done"
  /\ UNCHANGED <<lookupPaper, requests, semanticScholarData, openAlexData>>
  /\ UNCHANGED outsideLookup

InitLookup == LookupInit /\ IdleBut({"lookup"})
NextLookup ==
  \/ LookupByDoi
  \/ SkipDoi
  \/ LookupByArxiv
  \/ SkipArxiv
  \/ LookupByTitle
  \/ SkipTitle
  \/ ReturnNoData
  \/ ReturnEnriched
SpecLookup == InitLookup /\ [][NextLookup]_vars

\* mergeApiResponses on its own: enrichPaper at line 635, holding any two
\* responses of the types of lines 313-347, or null.
MergeSSPool ==
  { SSResponse(c, f, y, v, a) :
      c \in {None, Some(0), Some(5)}, f \in {None, Some(0)},
      y \in {None, Some(0), Some(2017)}, v \in {None, Some(""), Some("NeurIPS")},
      a \in {None, Some(<< >>), Some(<<Some("Ann")>>)} }
MergeOAPool ==
  { OAResponse(c, s, a) :
      c \in {None, Some(0), Some(40)},
      s \in {None, Some(OASource(None, None, None, None)),
             Some(OASource(Some("Nature"), Some("0028-0836"), Some(3), Some(2)))},
      a \in {None, Some(<<Some("Bea")>>)} }
MergeInit ==
  /\ lookupPaper = [doi |-> DoiBare, url |-> << >>, title |-> TitleBase]
  /\ requests = << >>
  /\ semanticScholarData \in {None} \cup {Some(r) : r \in MergeSSPool}
  /\ openAlexData \in {None} \cup {Some(r) : r \in MergeOAPool}
  /\ enrichResult = None
  /\ epc = "merge"
InitMerge == MergeInit /\ IdleBut({"lookup"})
NextMerge ==
  \/ ReturnNoData
  \/ ReturnEnriched
SpecMerge == InitMerge /\ [][NextMerge]_vars

\* ------------------------------------------------------------ enrichPapers
\* enrichPapers of recommendation.ts, lines 667-710. The calls of
\* enrichPaper of one batch run concurrently: each is started by the map of
\* line 684 and resolves on its own, in any order. The code between two
\* awaits runs without interruption, so one action is one such stretch.

\* CONFIG.batchSize and CONFIG.batchDelay, lines 369-370.
BatchSizeDefault == 10
BatchDelay == 1000

\* options.batchSize || CONFIG.batchSize, line 676.
batchSize ==
  IF TruthyNumber(batchSizeOption)
  THEN batchSizeOption[1]
  ELSE BatchSizeDefault

\* papers.slice(i, i + batchSize) of line 680, as the positions (from 1) of
\* its elements in a list of n papers.
Slice(i, size, n) == (i + 1)..Min(i + size, n)

\* Promise.all of line 683 resolves when no call of the batch is pending.
AllSettled_any(pending) == TRUE
AllSettled(pending) == pending = {}

\* i + batchSize < papers.length, line 704.
MoreBatches_orFull(i, size, n) == i + size <= n
MoreBatches(i, size, n) == i + size < n

\* Map.set.
MapSet(map, key, value) ==
  [k \in DOMAIN map \cup {key} |-> IF k = key THEN value ELSE map[k]]

\* The loop of lines 691-693 over the resolved slots of the batch lo..hi, in
\* the order of the batch.
RECURSIVE StoreFrom(_, _, _, _, _)
StoreFrom(map, lo, hi, slots, list) ==
  IF lo > hi THEN map
  ELSE StoreFrom(IF lo \in DOMAIN slots
                 THEN MapSet(map, list[lo].id, slots[lo])
                 ELSE map,
                 lo + 1, hi, slots, list)

StoreBatch_underFirstId(map, batch, slots, list) ==
  IF batch = {} THEN map
  ELSE LET lo == CHOOSE k \in batch : \A j \in batch : k <= j
       IN MapSet(map, list[lo].id, slots[lo])
StoreBatch(map, batch, slots, list) ==
  IF batch = {} THEN map
  ELSE LET lo == CHOOSE k \in batch : \A j \in batch : k <= j
           hi == CHOOSE k \in batch : \A j \in batch : k >= j
       IN StoreFrom(map, lo, hi, slots, list)

\* Math.min(i + batchSize, papers.length), papers.length of lines 697-700.
ProgressCall(i, size, n) == <<Min(i + size, n), n>>

\* The papers of a run: the k-th has the id "p" followed by k, as the papers
\* main passes have ids that differ from one another.
MaxPapers == 5
MaxBatchSize == 3
FullRun == 2 * BatchSizeDefault + 5
BatchPaper(k) == [id |-> <<"p">> \o NatToString(k)]
BatchPapersOf(n) == [k \in 1..n |-> BatchPaper(k)] \o << >>

\* The catch of enrichPaper, lines 650-655: whatever is thrown inside the try
\* becomes a failed result that carries the message of the error.
Caught(thrown) ==
  Failure(IF thrown.isError THEN thrown.message ELSE "Unknown error")
ThrownError(message) == [isError |-> TRUE, message |-> message]

\* What a call of enrichPaper resolves with: a patch, the failure of lines
\* 636-641 when the clients turned every 404, rate limit, timeout and network
\* error into null, or the failure of the catch.
BatchOutcomePool ==
  { Success("semantic_scholar", Patch(Some(9), None, None, Some(1999), None)),
    Failure("No data found from any API"),
    Caught(ThrownError("Cannot read properties of null")) }
FullRunOutcomes ==
  [k \in 1..FullRun |->
     IF k % 2 = 0 THEN Failure("No data found from any API")
     ELSE Success("openalex", Patch(Some(4), None, Some("JournalB"), None, None))] \o << >>

BatchInit ==
  /\ \E n \in 0..MaxPapers :
       /\ batchPapers = BatchPapersOf(n)
       /\ outcomeOf \in [1..n -> BatchOutcomePool]
       /\ batchSizeOption \in {None, Some(0)} \cup {Some(b) : b \in 1..MaxBatchSize}
     \/ /\ n = 0
        /\ batchPapers = BatchPapersOf(FullRun)
        /\ outcomeOf = FullRunOutcomes
        /\ batchSizeOption = None
  /\ onProgress \in BOOLEAN
  /\ loopI = 0
  /\ inflight = {}
  /\ batchResults = << >>
  /\ resultsMap = << >>
  /\ batches = << >>
  /\ progressCalls = << >>
  /\ delays = << >>
  /\ bpc = "entry"

\* Lines 675-679 with no papers: the loop is not entered, line 709 returns
\* the empty map.
ReturnEmpty ==
  /\ bpc = "entry"
  /\ ~(loopI < Len(batchPapers))
  /\ bpc' = "done"
  /\ UNCHANGED <<batchPapers, batchSizeOption, onProgress, outcomeOf, loopI, inflight,
                 batchResults, resultsMap, batches, progressCalls, delays>>
  /\ UNCHANGED outsideBatch

\* Lines 679-688: the slice, and the start of one call of enrichPaper for
\* each of its papers.
IssueBatch(i) ==
  LET batch == Slice(i, batchSize, Len(batchPapers)) IN
  /\ loopI' = i
  /\ inflight' = inflight \cup batch
  /\ batchResults' = << >>
  /\ batches' = Append(batches, batch)
  /\ bpc' = "await"
  /\ UNCHANGED <<batchPapers, batchSizeOption, onProgress, outcomeOf, resultsMap,
                 progressCalls, delays>>
  /\ UNCHANGED outsideBatch

StartFirstBatch ==
  /\ bpc = "entry"
  /\ loopI < Len(batchPapers)
  /\ IssueBatch(loopI)

\* The wait of line 705 is over: i += batchSize, the test of line 679, and
\* the next batch, or line 709 when no paper remains.
StartNextBatch ==
  /\ bpc = "sleep"
  /\ IF loopI + batchSize < Len(batchPapers)
     THEN IssueBatch(loopI + batchSize)
     ELSE /\ loopI' = loopI + batchSize
          /\ bpc' = "done"
          /\ UNCHANGED <<batchPapers, batchSizeOption, onProgress, outcomeOf, inflight,
                         batchResults, resultsMap, batches, progressCalls, delays>>
          /\ UNCHANGED outsideBatch

\* One pending call of enrichPaper resolves (lines 685-686).
CompleteLookup_storing ==
  \E k \in inflight :
    /\ bpc = "await"
    /\ inflight' = inflight \ {k}
    /\ batchResults' = [j \in DOMAIN batchResults \cup {k} |->
                          IF j = k THEN outcomeOf[k] ELSE batchResults[j]]
    /\ resultsMap' = MapSet(resultsMap, batchPapers[k].id, outcomeOf[k])
    /\ UNCHANGED <<batchPapers, batchSizeOption, onProgress, outcomeOf, loopI,
                   batches, progressCalls, delays, bpc>>
    /\ UNCHANGED outsideBatch
CompleteLookup_rejecting ==
  \E k \in inflight :
    /\ bpc = "await"
    /\ inflight' = inflight \ {k}
    /\ IF outcomeOf[k].success
       THEN /\ batchResults' = [j \in DOMAIN batchResults \cup {k} |->
                                  IF j = k THEN outcomeOf[k] ELSE batchResults[j]]
            /\ bpc' = bpc
       ELSE /\ batchResults' = batchResults
            /\ bpc' = "rejected"
    /\ UNCHANGED <<batchPapers, batchSizeOption, onProgress, outcomeOf, loopI,
                   resultsMap, batches, progressCalls, delays>>
    /\ UNCHANGED outsideBatch
CompleteLookup ==
  \E k \in inflight :
    /\ bpc = "await"
    /\ inflight' = inflight \ {k}
    /\ batchResults' = [j \in DOMAIN batchResults \cup {k} |->
                          IF j = k THEN outcomeOf[k] ELSE batchResults[j]]
    /\ UNCHANGED <<batchPapers, batchSizeOption, onProgress, outcomeOf, loopI,
                   resultsMap, batches, progressCalls, delays, bpc>>
    /\ UNCHANGED outsideBatch

\* Lines 690-701 once Promise.all has resolved: the results are stored and
\* the progress is reported.
JoinBatch ==
  /\ bpc = "await"
  /\ AllSettled(inflight)
  /\ resultsMap' = StoreBatch(resultsMap, Slice(loopI, batchSize, Len(batchPapers)),
                              batchResults, batchPapers)
  /\ progressCalls' =
       IF onProgress
       THEN Append(progressCalls, ProgressCall(loopI, batchSize, Len(batchPapers)))
       ELSE progressCalls

\* Lines 690-706 when papers remain: the wait of line 705 starts.
JoinAndDelay ==
  /\ JoinBatch
  /\ MoreBatches(loopI, batchSize, Len(batchPapers))
  /\ delays' = Append(delays, BatchDelay)
  /\ bpc' = "sleep"
  /\ UNCHANGED <<batchPapers, batchSizeOption, onProgress, outcomeOf, loopI, inflight,
                 batchResults, batches>>
  /\ UNCHANGED outsideBatch

\* Lines 690-709 after the last batch: no wait, the loop ends and the map is
\* returned.
JoinAndReturn ==
  /\ JoinBatch
  /\ ~MoreBatches(loopI, batchSize, Len(batchPapers))
  /\ bpc' = "done"
  /\ delays' = delays
  /\ UNCHANGED <<batchPapers, batchSizeOption, onProgress, outcomeOf, loopI, inflight,
                 batchResults, batches>>
  /\ UNCHANGED outsideBatch

InitBatch == BatchInit /\ IdleBut({"batch"})
NextBatch ==
  \/ ReturnEmpty
  \/ StartFirstBatch
  \/ StartNextBatch
  \/ CompleteLookup
  \/ JoinAndDelay
  \/ JoinAndReturn
SpecBatch == InitBatch /\ [][NextBatch]_vars
\* Every pending call of enrichPaper resolves (withRetry is bounded and
\* fetchWithTimeout aborts after 10 s) and every timer fires.
SpecBatchLive == SpecBatch /\ WF_vars(NextBatch)

\* ------------------------------------------------------- parseResearch.ts
\* A passage of the document is modelled by what the patterns of lines 20-59
\* match in it: the captures of DOI_PATTERNS, ARXIV_PATTERNS and
\* TITLE_PATTERNS in the order they are found, the names extractAuthors
\* returns and the year extractYear returns, and whether its trimmed text has
\* more than 50 characters.  What the code does with a capture is computed.

EndsWith(s, p) == Len(s) >= Len(p) /\ SubSeq(s, Len(s) - Len(p) + 1, Len(s)) = p
StripLeading(s, p) == IF StartsWith(s, p) THEN DropFirst(s, Len(p)) ELSE s
StripTrailing(s, p) == IF EndsWith(s, p) THEN SubSeq(s, 1, Len(s) - Len(p)) ELSE s
\* The first position of c in s from position from on, 0 when there is none.
RECURSIVE IndexFrom(_, _, _)
IndexFrom(s, c, from) ==
  IF from > Len(s) THEN 0
  ELSE IF s[from] = c THEN from
  ELSE IndexFrom(s, c, from + 1)

\* Array.from(new Set(list)): the first occurrence of each element, in order.
RECURSIVE Dedup(_)
Dedup(list) ==
  IF list = << >> THEN << >>
  ELSE LET rest == Dedup(SubSeq(list, 1, Len(list) - 1))
           last == list[Len(list)]
       IN IF \E k \in DOMAIN rest : rest[k] = last THEN rest ELSE Append(rest, last)

\* match[1].replace(/[.,;:)\]]+$/, ''), line 71
RECURSIVE CleanDoi(_)
CleanDoi(doi) ==
  IF doi # << >> /\ doi[Len(doi)] \in {".", ",", ";", ":", ")", "]"}
  THEN CleanDoi(SubSeq(doi, 1, Len(doi) - 1))
  ELSE doi

\* extractDOIs, lines 64-78, of the captures of a text
extractDOIs(captures) == Dedup([k \in DOMAIN captures |-> CleanDoi(captures[k])] \o << >>)
\* extractArxivIds, lines 83-97, of the captures of a text
extractArxivIds(captures) ==
  Dedup([k \in DOMAIN captures |-> StripVersion(captures[k])] \o << >>)

\* s.replace(/^#+\s*/, '')
RECURSIVE DropHashes(_)
DropHashes(s) == IF s # << >> /\ Head(s) = "#" THEN DropHashes(Tail(s)) ELSE s
StripHeader(s) == IF s # << >> /\ Head(s) = "#" THEN TrimLeft(DropHashes(s)) ELSE s

\* s.replace(/^\d+\.\s*/, '')
RECURSIVE LeadingDigits(_)
LeadingDigits(s) == IF s # << >> /\ IsDigit(Head(s)) THEN 1 + LeadingDigits(Tail(s)) ELSE 0
StripNumbering(s) ==
  LET n == LeadingDigits(s)
  IN IF n >= 1 /\ Len(s) > n /\ s[n + 1] = "." THEN TrimLeft(DropFirst(s, n + 1)) ELSE s

\* s.replace(/\[([^\]]+)\]\([^)]+\)/g, '$1'), from position at on
RECURSIVE ConvertLinks(_, _)
ConvertLinks(s, at) ==
  IF at > Len(s) THEN << >>
  ELSE LET close == IF s[at] = "[" THEN IndexFrom(s, "]", at + 1) ELSE 0
           end == IF close > at + 1 /\ Len(s) > close /\ s[close + 1] = "("
                  THEN IndexFrom(s, ")", close + 2) ELSE 0
       IN IF end > close + 2
          THEN SubSeq(s, at + 1, close - 1) \o ConvertLinks(s, end + 1)
          ELSE <<s[at]>> \o ConvertLinks(s, at + 1)

\* cleanTitle, lines 102-110
cleanTitle(title) ==
  trim(ConvertLinks(
         StripNumbering(StripHeader(
           StripTrailing(StripLeading(
             StripTrailing(StripLeading(title, <<"*", "*">>), <<"*", "*">>),
             <<"*">>), <<"*">>))), 1))

\* The patterns of isValidPaperTitle, lines 116-122, on a lower-cased title:
\* the words of the first pattern match the whole title, the others its start.
InvalidWholeTitles ==
  {<<"r", "e", "f", "e", "r", "e", "n", "c", "e", "s">>,
   <<"r", "e", "f", "e", "r", "e", "n", "c", "e">>,
   <<"b", "i", "b", "l", "i", "o", "g", "r", "a", "p", "h", "y">>,
   <<"c", "i", "t", "a", "t", "i", "o", "n", "s">>,
   <<"c", "i", "t", "a", "t", "i", "o", "n">>,
   <<"a", "b", "s", "t", "r", "a", "c", "t">>,
   <<"i", "n", "t", "r", "o", "d", "u", "c", "t", "i", "o", "n">>,
   <<"c", "o", "n", "c", "l", "u", "s", "i", "o", "n">>,
   <<"a", "p", "p", "e", "n", "d", "i", "x">>,
   <<"a", "c", "k", "n", "o", "w", "l", "e", "d", "g", "e", "m", "e", "n", "t", "s">>,
   <<"a", "c", "k", "n", "o", "w", "l", "e", "d", "g", "e", "m", "e", "n", "t">>}
InvalidTitleStarts ==
  {<<"f", "i", "g", "u", "r", "e">>,
   <<"t", "a", "b", "l", "e">>,
   <<"s", "e", "c", "t", "i", "o", "n">>,
   <<"c", "h", "a", "p", "t", "e", "r">>,
   <<"d", "e", "e", "p", " ", "r", "e", "s", "e", "a", "r", "c", "h">>,
   <<"k", "e", "y", " ", "f", "i", "n", "d", "i", "n", "g", "s">>,
   <<"s", "u", "m", "m", "a", "r", "y">>,
   <<"o", "v", "e", "r", "v", "i", "e", "w">>,
   <<"h", "t", "t", "p", ":", "/", "/">>,
   <<"h", "t", "t", "p", "s", ":", "/", "/">>,
   <<"d", "o", "i", ":">>,
   <<"a", "r", "x", "i", "v", ":">>,
   <<"u", "r", "l", ":">>}

\* isValidPaperTitle, lines 115-125
isValidPaperTitle_any(title) == TRUE
isValidPaperTitle(title) ==
  LET lower == toLowerCase(title)
  IN /\ lower \notin InvalidWholeTitles
     /\ \A start \in InvalidTitleStarts : ~StartsWith(lower, start)

\* /^(http|www|doi)/i of line 140
LooksLikeAddress(title) ==
  \E start \in {<<"h", "t", "t", "p">>, <<"w", "w", "w">>, <<"d", "o", "i">>} : StartsWith(toLowerCase(title), start)

\* extractTitles, lines 130-149, of the captures of a text
extractTitles(captures) ==
  LET cleaned == [k \in DOMAIN captures |-> cleanTitle(trim(captures[k]))] \o << >>
  IN Dedup(SelectSeq(cleaned,
                     LAMBDA title : /\ Len(title) >= 10
                                    /\ Len(title) <= 300
                                    /\ ~LooksLikeAddress(title)
                                    /\ isValidPaperTitle(title)))

PaperDoi == <<"P", "a", "p", "e", "r", " ", "D", "O", "I", ":">>
PaperArxiv == <<"P", "a", "p", "e", "r", " ", "a", "r", "X", "i", "v", ":">>
DoiOrgUrl == <<"h", "t", "t", "p", "s", ":", "/", "/", "d", "o", "i", ".", "o", "r", "g", "/">>
ArxivAbsUrl == <<"h", "t", "t", "p", "s", ":", "/", "/", "a", "r", "x", "i", "v", ".", "o", "r", "g", "/", "a", "b", "s", "/">>
\* list[0], undefined (the empty sequence) for an empty list
First(list) == IF list = << >> THEN << >> ELSE list[1]

\* parsePaperSection, lines 196-248: None for null
parsePaperSection(section) ==
  LET dois == extractDOIs(section.doiCaptures)
      arxivIds == extractArxivIds(section.arxivCaptures)
      titles == extractTitles(section.titleCaptures)
      best == IF titles = << >> THEN << >> ELSE cleanTitle(titles[1])
      title == IF best # << >> /\ isValidPaperTitle(best) /\ Len(best) >= 10
               THEN best
               ELSE IF dois # << >> THEN PaperDoi \o dois[1]
               ELSE IF arxivIds # << >> THEN PaperArxiv \o arxivIds[1]
               ELSE << >>
  IN IF titles = << >> /\ dois = << >> /\ arxivIds = << >> THEN None
     ELSE IF title = << >> THEN None
     ELSE Some(Extracted(title,
                         IF section.authors # << >> THEN section.authors ELSE <<"Unknown">>,
                         section.year,
                         First(dois),
                         First(arxivIds),
                         IF arxivIds # << >> THEN ArxivAbsUrl \o arxivIds[1]
                         ELSE IF dois # << >> THEN DoiOrgUrl \o dois[1]
                         ELSE << >>))

\* splitIntoPaperSections, lines 253-260: the passages of more than 50
\* characters
splitIntoPaperSections(passages) == SelectSeq(passages, LAMBDA passage : passage.long)

\* All the captures of a pattern in the document
RECURSIVE AllCaptures(_, _)
AllCaptures(passages, field) ==
  IF passages = << >> THEN << >>
  ELSE Head(passages)[field] \o AllCaptures(Tail(passages), field)

\* paper.doi || paper.arxivId || paper.title, line 281
IdentifierOf(paper) ==
  IF paper.doi # << >> THEN paper.doi
  ELSE IF paper.arxivId # << >> THEN paper.arxivId
  ELSE paper.title

\* The candidates of lines 292-314 for lists of identifiers not seen before
MinimalForDois_none(dois) == << >>
MinimalForDois(dois) ==
  [k \in DOMAIN dois |->
     Extracted(PaperDoi \o dois[k], <<"Unknown">>, None, dois[k], << >>,
               DoiOrgUrl \o dois[k])] \o << >>
MinimalForArxivIds(arxivIds) ==
  [k \in DOMAIN arxivIds |->
     Extracted(PaperArxiv \o arxivIds[k], <<"Unknown">>, None, << >>, arxivIds[k],
               ArxivAbsUrl \o arxivIds[k])] \o << >>

\* Captures of TITLE_PATTERNS: a title, a heading that is no title, titles
\* in bold with numbering, a link, a short one, one that starts like a
\* summary, an address.
TitleCaptures ==
  {<<"A", "t", "t", "e", "n", "t", "i", "o", "n", " ", "I", "s", " ", "A", "l", "l">>,
   <<"R", "e", "f", "e", "r", "e", "n", "c", "e", "s">>,
   <<"*", "E", "m", "p", "h", "a", "s", "i", "s", "e", "d", " ", "T", "i", "t", "l", "e", "*">>,
   <<"1", ".", " ", "2", ".", " ", "R", "e", "f", "e", "r", "e", "n", "c", "e", "s">>,
   <<"1", ".", " ", "2", ".", " ", "S", "c", "a", "l", "i", "n", "g", " ", "L", "a", "w", "s">>,
   <<"[", "D", "e", "e", "p", " ", "N", "e", "t", "w", "o", "r", "k", "s", "]", "(", "h", "t", "t", "p", ":", "/", "/", "x", ".", "y", ")">>,
   <<"T", "o", "o", " ", "s", "h", "o", "r", "t">>,
   <<"S", "u", "m", "m", "a", "r", "y", " ", "o", "f", " ", "f", "i", "n", "d", "i", "n", "g", "s">>,
   <<"w", "w", "w", ".", "e", "x", "a", "m", "p", "l", "e", ".", "o", "r", "g", "/", "p", "a", "p", "e", "r">>}
DoiTrailingDot == <<"1", "0", ".", "1", "2", "3", "4", "/", "a", ".">>
DoiPlain == <<"1", "0", ".", "1", "2", "3", "4", "/", "a">>
DoiSecond == <<"1", "0", ".", "5", "5", "5", "5", "/", "b">>
Passage(long, doiCaptures, arxivCaptures, titleCaptures, authors, year) ==
  [long |-> long, doiCaptures |-> doiCaptures, arxivCaptures |-> arxivCaptures,
   titleCaptures |-> titleCaptures, authors |-> authors, year |-> year]
PassagePool ==
  { Passage(long, d, a, ti, w[1], w[2]) :
      long \in BOOLEAN,
      d \in {<< >>, <<DoiSecond>>, <<DoiTrailingDot, DoiPlain>>},
      a \in {<< >>, <<ArxivV2, ArxivPlain>>},
      ti \in {<< >>} \cup {<<c>> : c \in TitleCaptures}
              \cup {<<<<"R", "e", "f", "e", "r", "e", "n", "c", "e", "s">>, <<"A", "t", "t", "e", "n", "t", "i", "o", "n", " ", "I", "s", " ", "A", "l", "l">>>>,
                    <<<<"1", ".", " ", "2", ".", " ", "R", "e", "f", "e", "r", "e", "n", "c", "e", "s">>,
                      <<"A", "t", "t", "e", "n", "t", "i", "o", "n", " ", "I", "s", " ", "A", "l", "l">>>>},
      w \in {<<<< >>, None>>, <<<<"Ann", "Bob">>, Some(2020)>>} }
\* A second passage: the first title again, the second DOI, a heading alone.
SecondPassagePool ==
  { Passage(TRUE, << >>, << >>, <<<<"A", "t", "t", "e", "n", "t", "i", "o", "n", " ", "I", "s", " ", "A", "l", "l">>>>, << >>, None),
    Passage(TRUE, <<DoiSecond>>, << >>, << >>, << >>, None),
    Passage(FALSE, <<DoiPlain>>, <<ArxivPlain>>, << >>, << >>, None),
    Passage(TRUE, << >>, << >>, <<<<"R", "e", "f", "e", "r", "e", "n", "c", "e", "s">>>>, << >>, None) }
Documents ==
  {<< >>} \cup {<<first>> : first \in PassagePool}
    \cup {<<first, second>> : first \in PassagePool, second \in SecondPassagePool}

ParseInit ==
  /\ markdown \in Documents
  /\ sectionResults = << >>
  /\ parsedPapers = << >>
  /\ seenIdentifiers = {}
  /\ ppc = "sections"

Sections == splitIntoPaperSections(markdown)

\* One turn of the loop of lines 277-288.
ParseSection ==
  /\ ppc = "sections"
  /\ Len(sectionResults) < Len(Sections)
  /\ LET paper == parsePaperSection(Sections[Len(sectionResults) + 1]) IN
       /\ sectionResults' = Append(sectionResults, paper)
       /\ IF paper # None /\ IdentifierOf(paper[1]) \notin seenIdentifiers
          THEN /\ seenIdentifiers' = seenIdentifiers \cup {IdentifierOf(paper[1])}
               /\ parsedPapers' = Append(parsedPapers, paper[1])
          ELSE UNCHANGED <<seenIdentifiers, parsedPapers>>
  /\ UNCHANGED <<markdown, ppc>>
  /\ UNCHANGED outsideParse

\* Lines 291-317 when the sections gave no paper: one candidate for each DOI
\* and each arXiv id of the whole document.
ScanIdentifiers ==
  /\ ppc = "sections"
  /\ Len(sectionResults) = Len(Sections)
  /\ Len(parsedPapers) = 0
  /\ LET allDOIs == extractDOIs(AllCaptures(markdown, "doiCaptures"))
         allArxivIds == extractArxivIds(AllCaptures(markdown, "arxivCaptures"))
         newDois == SelectSeq(allDOIs, LAMBDA doi : doi \notin seenIdentifiers)
         newArxivIds ==
           SelectSeq(allArxivIds,
                     LAMBDA id : id \notin seenIdentifiers
                                   /\ \A k \in DOMAIN newDois : newDois[k] # id)
     IN /\ parsedPapers' = MinimalForDois(newDois) \o MinimalForArxivIds(newArxivIds)
        /\ seenIdentifiers' =
             seenIdentifiers \cup {newDois[k] : k \in DOMAIN newDois}
               \cup {newArxivIds[k] : k \in DOMAIN newArxivIds}
  /\ ppc' = "done"
  /\ UNCHANGED <<markdown, sectionResults>>
  /\ UNCHANGED outsideParse

\* Lines 291 and 317 when the sections gave a paper.
ReturnParsed ==
  /\ ppc = "sections"
  /\ Len(sectionResults) = Len(Sections)
  /\ Len(parsedPapers) # 0
  /\ ppc' = "done"
  /\ UNCHANGED <<markdown, sectionResults, parsedPapers, seenIdentifiers>>
  /\ UNCHANGED outsideParse

InitParse == ParseInit /\ IdleBut({"parse"})
NextParse ==
  \/ ParseSection
  \/ ScanIdentifiers
  \/ ReturnParsed
SpecParse == InitParse /\ [][NextParse]_vars

\* ------------------------------------------------------------------ storage
\* scripts/add-papers.ts keeps the corpus in public/data.json: savePapers
\* writes JSON.stringify(papers, null, 2) and a newline, loadExistingPapers
\* reads the file and JSON.parse's it.  A JavaScript value is a tagged record;
\* an object is the sequence of its own properties in insertion order, each a
\* pair <<key, value>>; the text of the file is a tuple of characters.

JStr(s) == [t |-> "str", v |-> s]
JNum(n) == [t |-> "num", v |-> n]
JArr(items) == [t |-> "arr", v |-> items]
JObj(entries) == [t |-> "obj", v |-> entries]
JNull == [t |-> "null", v |-> << >>]
JUndefined == [t |-> "undef", v |-> << >>]

\* JSON.stringify: the quoted form of a string.
RECURSIVE EscapeJson(_)
EscapeJson_raw(s) == s
EscapeJson(s) ==
  IF s = << >> THEN << >>
  ELSE (IF Head(s) \in {"\"", "\\"} THEN <<"\\", Head(s)>>
        ELSE IF Head(s) = "\n" THEN <<"\\", "n">>
        ELSE <<Head(s)>>) \o EscapeJson(Tail(s))

Quote(s) == <<"\"">> \o EscapeJson(s) \o <<"\"">>

\* The line break and indentation that the space argument 2 puts in front of
\* every member at the given depth.
IndentWidth == 2
NewLine(depth) == <<"\n">> \o [k \in 1..(IndentWidth * depth) |-> " "] \o << >>

\* A property whose value is undefined is left out of an object; an undefined
\* array element is written as null.
Serialisable(entries) == SelectSeq(entries, LAMBDA e : e[2].t # "undef")

RECURSIVE stringify(_, _)
RECURSIVE StringifyItems(_, _, _)
RECURSIVE StringifyEntries(_, _, _)
stringify(value, depth) ==
  CASE value.t = "str" -> Quote(value.v)
    [] value.t = "num" -> NatToString(value.v)
    [] value.t \in {"null", "undef"} -> <<"n", "u", "l", "l">>
    [] value.t = "arr" ->
         IF value.v = << >> THEN <<"[", "]">>
         ELSE <<"[">> \o StringifyItems(value.v, 1, depth + 1)
                  \o NewLine(depth) \o <<"]">>
    [] value.t = "obj" ->
         IF Serialisable(value.v) = << >> THEN <<"{", "}">>
         ELSE <<"{">> \o StringifyEntries(Serialisable(value.v), 1, depth + 1)
                  \o NewLine(depth) \o <<"}">>
StringifyItems(items, k, depth) ==
  IF k > Len(items) THEN << >>
  ELSE (IF k > 1 THEN <<",">> ELSE << >>) \o NewLine(depth)
         \o stringify(items[k], depth) \o StringifyItems(items, k + 1, depth)
StringifyEntries(entries, k, depth) ==
  IF k > Len(entries) THEN << >>
  ELSE (IF k > 1 THEN <<",">> ELSE << >>) \o NewLine(depth)
         \o Quote(entries[k][1]) \o <<":", " ">>
         \o stringify(entries[k][2], depth)
         \o StringifyEntries(entries, k + 1, depth)

\* JSON.parse, by recursive descent over the text.  A parse step answers the
\* value it read and the position after it, or fails (SyntaxError).
Parsed(value, next) == [ok |-> TRUE, value |-> value, next |-> next]
SyntaxError == [ok |-> FALSE, value |-> JUndefined, next |-> 0]

RECURSIVE SkipWhitespace(_, _)
SkipWhitespace(s, at) ==
  IF at <= Len(s) /\ s[at] \in {" ", "\n", "\t", "\r"}
  THEN SkipWhitespace(s, at + 1) ELSE at

\* at is the position after the opening quote.
RECURSIVE ParseString(_, _, _)
ParseString(s, at, acc) ==
  IF at > Len(s) THEN SyntaxError
  ELSE IF s[at] = "\"" THEN Parsed(JStr(acc), at + 1)
  ELSE IF s[at] = "\\"
  THEN IF at + 1 > Len(s) THEN SyntaxError
       ELSE IF s[at + 1] \in {"\"", "\\", "/"}
       THEN ParseString(s, at + 2, Append(acc, s[at + 1]))
       ELSE IF s[at + 1] = "n" THEN ParseString(s, at + 2, Append(acc, "\n"))
       ELSE SyntaxError
  ELSE IF s[at] = "\n" THEN SyntaxError
  ELSE ParseString(s, at + 1, Append(acc, s[at]))

RECURSIVE DigitsFrom(_, _)
DigitsFrom(s, at) ==
  IF at <= Len(s) /\ IsDigit(s[at]) THEN 1 + DigitsFrom(s, at + 1) ELSE 0

ParseNumber(s, at) ==
  LET n == DigitsFrom(s, at) IN
  IF n > 1 /\ s[at] = "0" THEN SyntaxError
  ELSE Parsed(JNum(ParseDigits(SubSeq(s, at, at + n - 1), 1, 0)), at + n)

RECURSIVE ParseValue(_, _)
RECURSIVE ParseItems(_, _, _)
RECURSIVE ParseEntries(_, _, _)
ParseValue(s, from) ==
  LET at == SkipWhitespace(s, from) IN
  IF at > Len(s) THEN SyntaxError
  ELSE IF s[at] = "\"" THEN ParseString(s, at + 1, << >>)
  ELSE IF IsDigit(s[at]) THEN ParseNumber(s, at)
  ELSE IF OccursAt(s, <<"n", "u", "l", "l">>, at) THEN Parsed(JNull, at + 4)
  ELSE IF s[at] = "["
  THEN LET p == SkipWhitespace(s, at + 1) IN
       IF p <= Len(s) /\ s[p] = "]" THEN Parsed(JArr(<< >>), p + 1)
       ELSE ParseItems(s, at + 1, << >>)
  ELSE IF s[at] = "{"
  THEN LET p == SkipWhitespace(s, at + 1) IN
       IF p <= Len(s) /\ s[p] = "}" THEN Parsed(JObj(<< >>), p + 1)
       ELSE ParseEntries(s, at + 1, << >>)
  ELSE SyntaxError
ParseItems(s, at, acc) ==
  LET item == ParseValue(s, at) IN
  IF ~item.ok THEN SyntaxError
  ELSE LET p == SkipWhitespace(s, item.next) IN
       IF p > Len(s) THEN SyntaxError
       ELSE IF s[p] = "," THEN ParseItems(s, p + 1, Append(acc, item.value))
       ELSE IF s[p] = "]" THEN Parsed(JArr(Append(acc, item.value)), p + 1)
       ELSE SyntaxError
ParseEntries(s, at, acc) ==
  LET k == SkipWhitespace(s, at) IN
  IF k > Len(s) \/ s[k] # "\"" THEN SyntaxError
  ELSE LET key == ParseString(s, k + 1, << >>) IN
       IF ~key.ok THEN SyntaxError
       ELSE LET colon == SkipWhitespace(s, key.next) IN
            IF colon > Len(s) \/ s[colon] # ":" THEN SyntaxError
            ELSE LET member == ParseValue(s, colon + 1) IN
                 IF ~member.ok THEN SyntaxError
                 ELSE LET p == SkipWhitespace(s, member.next)
                          entries == Append(acc, <<key.value.v, member.value>>)
                      IN
                      IF p > Len(s) THEN SyntaxError
                      ELSE IF s[p] = "," THEN ParseEntries(s, p + 1, entries)
                      ELSE IF s[p] = "}" THEN Parsed(JObj(entries), p + 1)
                      ELSE SyntaxError

\* JSON.parse(content): the value, or None when it throws.
JsonParse(content) ==
  LET top == ParseValue(content, 1) IN
  IF top.ok /\ SkipWhitespace(content, top.next) > Len(content)
  THEN Some(top.value) ELSE None

\* savePapers: the text written to the file.
WrittenText(papers) == stringify(JArr(papers), 0) \o <<"\n">>

\* loadExistingPapers on the text of the file: readFileSync throws when there
\* is no file, JSON.parse throws on a text that is not JSON; both are caught
\* and answered with the empty corpus.
ReadCorpus(content) ==
  IF content = None THEN << >>
  ELSE IF JsonParse(content[1]) = None THEN << >>
  ELSE JsonParse(content[1])[1].v

\* The records of a corpus.  RequiredFields are the properties every Paper
\* has, OptionalFields the eleven that may be absent, in the order of the
\* interface; the values hold the characters the serialiser has to escape
\* and the ones that delimit JSON.
SampleJournal ==
  JObj(<< <<<<"n", "a", "m", "e">>, JStr(<<"J", ".", " ", "o", "f", " ", "\"", "X", "\"">>)>>, <<<<"i", "s", "s", "n">>, JStr(<<"1", "2", "3", "4", "-", "5", "6", "7", "8">>)>>, <<<<"h", "I", "n", "d", "e", "x">>, JNum(7)>> >>)
RequiredFields ==
  << <<<<"i", "d">>, JStr(<<"p", "1">>)>>,
     <<<<"t", "i", "t", "l", "e">>, JStr(<<"A", " ", "\"", "b", "\"", " ", "\\", " ", "c">>)>>,
     <<<<"a", "u", "t", "h", "o", "r", "s">>, JArr(<<JStr(<<"A", ".", " ", "V", "a", "s", "w", "a", "n", "i">>), JStr(<<"N", ".", " ", "O", "'", "N", "e", "i", "l", " ", "\\", " ", "C", "o">>)>>)>>,
     <<<<"y", "e", "a", "r">>, JNum(2017)>>,
     <<<<"t", "a", "g", "s">>, JArr(<< >>)>>,
     <<<<"s", "t", "a", "t", "u", "s">>, JStr(<<"u", "n", "r", "e", "a", "d">>)>>,
     <<<<"a", "d", "d", "e", "d", "D", "a", "t", "e">>, JStr(<<"2", "0", "2", "6", "-", "0", "1", "-", "0", "5">>)>> >>
OptionalFields ==
  << <<<<"d", "o", "i">>, JStr(<<"1", "0", ".", "1", "/", "a">>)>>,
     <<<<"u", "r", "l">>, JStr(<<"h", "t", "t", "p", "s", ":", "/", "/", "x", ".", "y", "/", "z">>)>>,
     <<<<"a", "b", "s", "t", "r", "a", "c", "t">>, JStr(<<"L", "i", "n", "e", " ", "o", "n", "e", "\n", "l", "i", "n", "e", " ", "t", "w", "o">>)>>,
     <<<<"r", "e", "a", "d", "D", "a", "t", "e">>, JStr(<<"2", "0", "2", "6", "-", "0", "2", "-", "0", "1">>)>>,
     <<<<"c", "i", "t", "a", "t", "i", "o", "n", "C", "o", "u", "n", "t">>, JNum(0)>>,
     <<<<"i", "n", "f", "l", "u", "e", "n", "t", "i", "a", "l", "C", "i", "t", "a", "t", "i", "o", "n", "s">>, JNum(12)>>,
     <<<<"j", "o", "u", "r", "n", "a", "l">>, SampleJournal>>,
     <<<<"t", "w", "e", "e", "t", "D", "r", "a", "f", "t">>, JStr(<<"{", "d", "r", "a", "f", "t", "}">>)>>,
     <<<<"t", "w", "e", "e", "t", "e", "d", "A", "t">>, JStr(<<"2", "0", "2", "6", "-", "0", "3", "-", "0", "1">>)>>,
     <<<<"s", "u", "m", "m", "a", "r", "y">>, JStr(<<"[", "s", "]", ",", " ", "\"", "q", "\"">>)>>,
     <<<<"p", "u", "b", "l", "i", "s", "h", "e", "d", "D", "a", "t", "e">>, JStr(<<"2", "0", "1", "7", "-", "0", "6">>)>> >>

\* The record that has exactly the optional fields whose positions are given.
PaperWith(present) ==
  LET kept == SelectSeq([k \in 1..Len(OptionalFields) |-> k] \o << >>,
                        LAMBDA k : k \in present)
  IN JObj(RequiredFields \o [j \in 1..Len(kept) |-> OptionalFields[kept[j]]])

\* convertToPaper writes doi and url as properties even when the candidate has
\* none: the property is there and its value is undefined.
PaperWithUndefined(present) ==
  JObj(RequiredFields
       \o [k \in 1..Len(OptionalFields) |->
             IF k \in present THEN OptionalFields[k]
             ELSE <<OptionalFields[k][1], JUndefined>>])

AllOptional == 1..Len(OptionalFields)

\* Corpora of one record, one for each combination of optional fields, and
\* corpora of several records for the order.
StoredCorpora ==
  {<<PaperWith(present)>> : present \in SUBSET AllOptional}
    \cup {<<PaperWithUndefined(present)>> : present \in SUBSET (1..3)}
    \cup {<< >>,
          <<PaperWith({}), PaperWith(AllOptional)>>,
          <<PaperWith(AllOptional), PaperWith({}), PaperWithUndefined({7})>>}

\* What public/data.json holds before the run: no file, a text that is not
\* JSON (a write cut short), or an empty array.
BrokenText == <<"[", "\n", " ", " ", "{", "\n">>
InitialFiles == {None, Some(BrokenText), Some(<<"[", "]", "\n">>)}

StoreInit ==
  /\ corpus \in StoredCorpora
  /\ fileContent \in InitialFiles
  /\ loaded = << >>
  /\ stpc = "start"

\* savePapers(papers)
SaveCorpus ==
  /\ stpc = "start"
  /\ fileContent' = Some(WrittenText(corpus))
  /\ stpc' = "saved"
  /\ UNCHANGED <<corpus, loaded>>
  /\ UNCHANGED outsideStore

\* loadExistingPapers(), of the file as found or of the file just written.
LoadCorpus ==
  /\ stpc \in {"start", "saved"}
  /\ loaded' = ReadCorpus(fileContent)
  /\ stpc' = IF stpc = "saved" THEN "reloaded" ELSE "loaded"
  /\ UNCHANGED <<corpus, fileContent>>
  /\ UNCHANGED outsideStore

InitStore == StoreInit /\ IdleBut({"store"})
NextStore == SaveCorpus \/ LoadCorpus
SpecStore == InitStore /\ [][NextStore]_vars

\* ------------------------------------------------------------------ claims

Batch == DOMAIN newPapers
Done == dpc = "done"
\* Candidate i was pushed to report.newPapers.
Accepted(i) == \E k \in DOMAIN report.newPapers : report.newPapers[k] = i
\* Candidate i was pushed to report.duplicates.
Reported(i) == \E k \in DOMAIN report.duplicates : report.duplicates[k].paper = i
ReportedAs(i, matchType) ==
  \E k \in DOMAIN report.duplicates :
    /\ report.duplicates[k].paper = i
    /\ report.duplicates[k].result.matchType = matchType
\* How often candidate i occurs in the two lists of the report.
Listings(i) ==
  Cardinality({k \in DOMAIN report.newPapers : report.newPapers[k] = i})
    + Cardinality({k \in DOMAIN report.duplicates : report.duplicates[k].paper = i})

\* Candidates i and j have the same lower-cased trimmed title, the same
\* normalized DOI or the same normalized arXiv id.
SameTitleKey(i, j) ==
  trim(toLowerCase(newPapers[i].title)) = trim(toLowerCase(newPapers[j].title))
SameDoiKey(i, j) ==
  /\ newPapers[i].doi # << >>
  /\ newPapers[j].doi # << >>
  /\ normalizeDOI(newPapers[i].doi) # << >>
  /\ normalizeDOI(newPapers[i].doi) = normalizeDOI(newPapers[j].doi)
SameArxivKey(i, j) ==
  /\ newPapers[i].arxivId # << >>
  /\ newPapers[j].arxivId # << >>
  /\ normalizeArxivId(newPapers[i].arxivId) # << >>
  /\ normalizeArxivId(newPapers[i].arxivId) = normalizeArxivId(newPapers[j].arxivId)
\* An earlier accepted candidate of the batch has one of the keys of i.
ShadowedInBatch(i) ==
  \E j \in Batch :
    j < i /\ Accepted(j) /\ (SameTitleKey(i, j) \/ SameDoiKey(i, j) \/ SameArxivKey(i, j))

\* C1 as stated: when checkDuplicates has returned, every candidate is
\* listed exactly once, in report.newPapers or in report.duplicates, and the
\* two lists together are as long as the batch.
C1_Partition ==
  Done =>
    /\ \A i \in Batch : Listings(i) = 1
    /\ Len(report.newPapers) + Len(report.duplicates) = Len(newPapers)

\* C1 amended: when checkDuplicates has returned, every candidate is listed
\* at most once; it is listed nowhere exactly when an earlier accepted
\* candidate of the batch has its lower-cased trimmed title, its normalized
\* DOI or its normalized arXiv id; and every entry of report.duplicates
\* carries the verdict of checkDuplicate against the corpus: a rule and the
\* existing record matched.
C1_PartitionButSkipped ==
  Done =>
    /\ \A i \in Batch : Listings(i) <= 1
    /\ \A i \in Batch : (Listings(i) = 0) <=> ShadowedInBatch(i)
    /\ \A k \in DOMAIN report.duplicates :
         LET d == report.duplicates[k]
         IN /\ d.result.isDuplicate
            /\ d.result = checkDuplicate(newPapers[d.paper], existingPapers, titleThreshold)
            /\ d.result.matchType \in {"doi", "arxiv", "title"}
            /\ d.result.matchedPaper \in DOMAIN existingPapers

\* C1 witness: a returned report that lists one candidate as new, one as a
\* duplicate, and leaves one out.
C1_Witness ==
  /\ Done
  /\ \E i, j, k \in Batch : Accepted(i) /\ Reported(j) /\ Listings(k) = 0

\* The candidate's DOI and the record's DOI are the same DOI (10.x/y) up to
\* letter case and an optional http(s)://doi.org/ prefix on either side.
EqualIgnoringCase(a, b) ==
  /\ Len(a) = Len(b)
  /\ \A k \in 1..Len(a) : toLowerChar(a[k]) = toLowerChar(b[k])
WithoutDoiPrefix(s) ==
  {DropFirst(s, Len(p)) : p \in {p \in {<< >>, HttpPrefix, HttpsPrefix} :
      Len(s) >= Len(p) /\ EqualIgnoringCase(SubSeq(s, 1, Len(p)), p)}}
IsBareDoi(s) == StartsWith(s, <<"1", "0", ".">>)
SameDoi(a, b) ==
  \E ra \in WithoutDoiPrefix(a), rb \in WithoutDoiPrefix(b) :
    IsBareDoi(ra) /\ IsBareDoi(rb) /\ EqualIgnoringCase(ra, rb)
SameDoiRecords(i) ==
  {k \in DOMAIN existingPapers : SameDoi(newPapers[i].doi, existingPapers[k].doi)}

\* C2: for every candidate with a DOI and every corpus holding a record with
\* the same DOI up to letter case and a doi.org prefix, checkDuplicate
\* returns a duplicate of type 'doi', matched to the first such record, with
\* similarity 1.  (Stated of the candidate the loop is at; every candidate
\* of every batch is that candidate in some state.)
C2_DoiMatch ==
  InLoop =>
    LET same == SameDoiRecords(cursor)
    IN same # {} =>
         checkDuplicate(Current, existingPapers, titleThreshold)
           = [isDuplicate |-> TRUE, matchType |-> "doi",
              matchedPaper |-> FirstOf(same), similarity |-> One]

\* C2 witness: a candidate was reported as a DOI duplicate of a record whose
\* DOI is written differently, and a later record has that DOI too.
C2_Witness ==
  \E k \in DOMAIN report.duplicates :
    LET d == report.duplicates[k]
    IN /\ d.result.matchType = "doi"
       /\ newPapers[d.paper].doi # existingPapers[d.result.matchedPaper].doi
       /\ Cardinality(SameDoiRecords(d.paper)) = 2

\* The DOI of candidate i is the DOI of a record of the corpus.
DoiInCorpus(i) ==
  /\ newPapers[i].doi # << >>
  /\ \E k \in DOMAIN existingPapers :
       /\ existingPapers[k].doi # << >>
       /\ normalizeDOI(existingPapers[k].doi) = normalizeDOI(newPapers[i].doi)

\* C3 as stated: whatever the order and the rest of the batch, a candidate
\* whose normalized DOI is the DOI of a corpus record is listed in
\* report.duplicates with matchType 'doi'.
C3_DoiAlwaysReported ==
  Done => \A i \in Batch : DoiInCorpus(i) => ReportedAs(i, "doi")

\* C3 amended: whatever the order and the rest of the batch, a candidate
\* whose normalized DOI is the DOI of a corpus record is never accepted; it
\* is listed in report.duplicates with matchType 'doi' unless an earlier
\* accepted candidate has its lower-cased trimmed title or its normalized
\* arXiv id, and then it is listed nowhere.
C3_DoiNeverAccepted ==
  Done =>
    \A i \in Batch :
      DoiInCorpus(i) =>
        /\ ~Accepted(i)
        /\ IF \E j \in Batch :
                j < i /\ Accepted(j) /\ (SameTitleKey(i, j) \/ SameArxivKey(i, j))
           THEN Listings(i) = 0
           ELSE ReportedAs(i, "doi") /\ Listings(i) = 1

\* C3 witness: the same candidate with a corpus DOI occurs twice in a
\* returned batch, once reported as a DOI duplicate and once skipped.
C3_Witness ==
  /\ Done
  /\ \E i, j \in Batch :
       /\ newPapers[i] = newPapers[j]
       /\ DoiInCorpus(i)
       /\ ReportedAs(i, "doi")
       /\ Listings(j) = 0

\* The three rules, stated for candidate i against the whole corpus.
SomeDoiMatch(i) == DoiInCorpus(i)
SomeArxivMatch(i) ==
  /\ newPapers[i].arxivId # << >>
  /\ \E k \in DOMAIN existingPapers :
       /\ existingArxivMatch(existingPapers[k].url) # << >>
       /\ existingArxivMatch(existingPapers[k].url)
            = trim(StripVersion(toLowerCase(newPapers[i].arxivId)))
SomeTitleMatch(i) ==
  \E k \in DOMAIN existingPapers :
    FracGeq(calculateTitleSimilarity(newPapers[i].title, existingPapers[k].title),
            titleThreshold)
VerdictOf(i) == checkDuplicate(newPapers[i], existingPapers, titleThreshold)
MatchTypeOf(i) == IF VerdictOf(i).isDuplicate THEN VerdictOf(i).matchType ELSE "none"

\* C4: the verdict of checkDuplicate is 'doi' exactly when some record has
\* the candidate's normalized DOI, 'arxiv' exactly when none has and some
\* record's URL carries the candidate's normalized arXiv id, 'title' exactly
\* when neither identifier rule matches and some title reaches the
\* threshold, and not a duplicate exactly when no rule matches any record.
\* (Stated of the candidate the loop is at.)
C4_RuleOrder ==
  InLoop =>
    LET matchType == MatchTypeOf(cursor)
        byDoi == SomeDoiMatch(cursor)
        byArxiv == SomeArxivMatch(cursor)
        byTitle == SomeTitleMatch(cursor)
    IN /\ (matchType = "doi") <=> byDoi
       /\ (matchType = "arxiv") <=> (~byDoi /\ byArxiv)
       /\ (matchType = "title") <=> (~byDoi /\ ~byArxiv /\ byTitle)
       /\ (matchType = "none") <=> (~byDoi /\ ~byArxiv /\ ~byTitle)

\* C4 witness: a candidate was reported as a DOI duplicate of the second
\* record although the first record matches it by arXiv id and by title.
C4_Witness ==
  \E k \in DOMAIN report.duplicates :
    LET d == report.duplicates[k]
        c == newPapers[d.paper]
    IN /\ d.result.matchType = "doi"
       /\ d.result.matchedPaper = 2
       /\ c.arxivId # << >>
       /\ existingArxivMatch(existingPapers[1].url) = normalizeArxivId(c.arxivId)
       /\ FracGeq(calculateTitleSimilarity(c.title, existingPapers[1].title),
                  titleThreshold)

\* C5: for a candidate without identifier match, checkDuplicate returns a
\* title duplicate if the similarity to some corpus title is greater than or
\* equal to titleThreshold, and no duplicate if every similarity is strictly
\* below it.  (Stated of the candidate the loop is at.)
C5_InclusiveThreshold ==
  (InLoop /\ ~SomeDoiMatch(cursor) /\ ~SomeArxivMatch(cursor)) =>
    LET v == VerdictOf(cursor)
        sim == [k \in DOMAIN existingPapers |->
                  calculateTitleSimilarity(Current.title, existingPapers[k].title)]
    IN /\ (\E k \in DOMAIN existingPapers :
             sim[k].num * titleThreshold.den >= titleThreshold.num * sim[k].den)
            => (v.isDuplicate /\ v.matchType = "title")
       /\ (\A k \in DOMAIN existingPapers :
             sim[k].num * titleThreshold.den < titleThreshold.num * sim[k].den)
            => ~v.isDuplicate

\* C5 witness: a candidate was reported as a title duplicate at a similarity
\* exactly equal to the threshold, and another was accepted against the same
\* non-empty corpus.
C5_Witness ==
  /\ \E k \in DOMAIN report.duplicates :
       LET d == report.duplicates[k]
       IN /\ d.result.matchType = "title"
          /\ d.result.similarity.num * titleThreshold.den
               = titleThreshold.num * d.result.similarity.den
  /\ existingPapers # << >>
  /\ report.newPapers # << >>

NoIdentifiers(i) == newPapers[i].doi = << >> /\ newPapers[i].arxivId = << >>

\* C6: when checkDuplicates has returned, of two candidates with identical
\* non-empty titles and no identifiers the second is not accepted, and the
\* first is accepted when it does not match the corpus and no earlier
\* candidate of the batch has its title.
C6_IdenticalTitles ==
  Done =>
    \A i, j \in Batch :
      (/\ i < j
       /\ newPapers[i].title = newPapers[j].title
       /\ newPapers[i].title # << >>
       /\ NoIdentifiers(i)
       /\ NoIdentifiers(j)) =>
        /\ ~Accepted(j)
        /\ (/\ ~SomeTitleMatch(i)
            /\ \A k \in Batch : k < i => ~SameTitleKey(i, k))
             => Accepted(i)

\* C6 witness: the corpus is not empty, and of two candidates with the same
\* title and no identifiers the first was accepted and the second left out.
C6_Witness ==
  /\ Done
  /\ existingPapers # << >>
  /\ \E i, j \in Batch :
       /\ i < j
       /\ newPapers[i].title = newPapers[j].title
       /\ NoIdentifiers(i)
       /\ NoIdentifiers(j)
       /\ Accepted(i)
       /\ Listings(j) = 0

\* C7 as stated: when checkDuplicates has returned, no two accepted
\* candidates have a title similarity greater than or equal to the threshold.
C7_NoSimilarAccepted ==
  Done =>
    \A i, j \in Batch :
      (i # j /\ Accepted(i) /\ Accepted(j)) =>
        ~FracGeq(calculateTitleSimilarity(newPapers[i].title, newPapers[j].title),
                 titleThreshold)

\* C7 amended: when checkDuplicates has returned, no two accepted candidates
\* have the same lower-cased trimmed title, the same normalized DOI or the
\* same normalized arXiv id; the similarity rule is applied against the
\* corpus titles only.
C7_NoSameKeyAccepted ==
  Done =>
    \A i, j \in Batch :
      (i # j /\ Accepted(i) /\ Accepted(j)) =>
        ~(SameTitleKey(i, j) \/ SameDoiKey(i, j) \/ SameArxivKey(i, j))

\* C7 witness: two candidates were accepted whose titles have similarity 1,
\* and a third with the lower-cased trimmed title of one of them was not.
C7_Witness ==
  /\ Done
  /\ \E i, j, k \in Batch :
       /\ i # j
       /\ Accepted(i)
       /\ Accepted(j)
       /\ calculateTitleSimilarity(newPapers[i].title, newPapers[j].title) = One
       /\ j < k
       /\ SameTitleKey(j, k)
       /\ ~Accepted(k)

\* The pair of the near-duplicate scenario, the candidate first.
IsChinchillaPair == title1 = ChinchillaCandidate /\ title2 = ChinchillaExisting
IsTitleDuplicate(v) == v.isDuplicate /\ v.matchType = "title" /\ v.matchedPaper = 1

\* C8 as stated: the two titles of the scenario have identical normalized
\* forms, edit distance 0 and similarity exactly 1, and the candidate is a
\* title duplicate.
C8_ScenarioSimilarityOne ==
  (spc = "done" /\ IsChinchillaPair) =>
    /\ normalize(title1) = normalize(title2)
    /\ levenshteinDistance(normalize(title1), normalize(title2)) = 0
    /\ similarity = One
    /\ IsTitleDuplicate(verdict)

\* C8 amended: two titles that are equal once lower-cased and rid of their
\* punctuation have similarity exactly 1 and are title duplicates; a hyphen
\* is deleted, not turned into a space, so the two titles of the scenario
\* normalize to strings of 45 and 46 characters at edit distance 1, their
\* similarity is 45/46, and with a threshold of 0.9 or 0.5 the candidate is
\* still a title duplicate.
C8_ScenarioNearDuplicate ==
  spc = "done" =>
    /\ RemovePunctuation(toLowerCase(title1)) = RemovePunctuation(toLowerCase(title2))
         => (similarity = One /\ IsTitleDuplicate(verdict) /\ verdict.similarity = One)
    /\ IsChinchillaPair =>
         /\ Len(normalize(title1)) = 46
         /\ Len(normalize(title2)) = 45
         /\ levenshteinDistance(normalize(title1), normalize(title2)) = 1
         /\ similarity = [num |-> 45, den |-> 46]
         /\ IsTitleDuplicate(verdict)
         /\ verdict.similarity = [num |-> 45, den |-> 46]

\* C8 witness: the candidate of the scenario was classified against the
\* existing title with the default threshold.
C8_Witness ==
  /\ spc = "done"
  /\ IsChinchillaPair
  /\ threshold = DefaultThreshold
  /\ verdict.isDuplicate

\* C9: calculateTitleSimilarity returns 1 when the normalized titles are
\* identical (both empty included), 0 when exactly one is empty, and
\* otherwise 1 - distance / max(len); it never divides by zero and the
\* result lies in [0, 1].
C9_SimilarityRange ==
  spc # "start" =>
    LET t1 == normalize(title1)
        t2 == normalize(title2)
    IN /\ similarity.den > 0
       /\ 0 <= similarity.num
       /\ similarity.num <= similarity.den
       /\ t1 = t2 => similarity = One
       /\ (t1 = << >>) # (t2 = << >>) => similarity = Zero
       /\ (t1 # t2 /\ t1 # << >> /\ t2 # << >>) =>
            /\ similarity.den = Max(Len(t1), Len(t2))
            /\ similarity.num = similarity.den - levenshteinDistance(t1, t2)

\* C9 witness: a similarity strictly between 0 and 1 was returned.
C9_Witness ==
  /\ spc = "scored"
  /\ 0 < similarity.num
  /\ similarity.num < similarity.den

\* C10: levenshteinDistance(a, b) = levenshteinDistance(b, a).
C10_Symmetric ==
  spc \in {"measured", "done"} => distance = levenshteinDistance(title2, title1)

\* C10 witness: the distance of a string to a longer one that is no
\* extension of it was computed.
C10_Witness ==
  /\ spc = "measured"
  /\ title1 # << >>
  /\ Len(title1) < Len(title2)
  /\ distance > Len(title2) - Len(title1)

\* ---- C11: applyEnrichment only fills gaps

ApplyDone == apc = "done"
Applied == DOMAIN applyPapers
\* The patch applyEnrichment finds for paper k, None when the result is
\* missing, failed or without data.
PatchFor(k) ==
  LET result == ResultFor(applyPapers[k], applyResults) IN
  IF result # None /\ result[1].success THEN result[1].data ELSE None

KeepsCounts(k) ==
  /\ applyPapers[k].citationCount # None
       => applyReturn[k].citationCount = applyPapers[k].citationCount
  /\ applyPapers[k].influentialCitations # None
       => applyReturn[k].influentialCitations = applyPapers[k].influentialCitations
  /\ applyPapers[k].journal # None
       => applyReturn[k].journal = applyPapers[k].journal

ReplacesOnlyPlaceholderAuthors(k) ==
  applyReturn[k].authors # applyPapers[k].authors
    => /\ applyPapers[k].authors = <<"Unknown">>
       /\ PatchFor(k) # None
       /\ PatchFor(k)[1].authors = Some(applyReturn[k].authors)

\* C11 as stated: a citationCount, influentialCitations, journal or year that
\* is set on the record (a citationCount of 0 included) is unchanged in the
\* result of applyEnrichment, and the authors are replaced, by the authors of
\* the patch, only when they are exactly ['Unknown'].
C11_OnlyFillsGaps ==
  ApplyDone =>
    /\ Len(applyReturn) = Len(applyPapers)
    /\ \A k \in Applied :
         /\ KeepsCounts(k)
         /\ applyPapers[k].year # None => applyReturn[k].year = applyPapers[k].year
         /\ ReplacesOnlyPlaceholderAuthors(k)

\* C11 amended: as C11, but the year is kept only when it is set and not 0:
\* line 731 tests the year with ||, so a year of 0 is filled like a missing
\* one (from the patch, else with the current year), while a citationCount
\* or influentialCitations of 0 is kept.
C11_OnlyFillsGapsYearNonZero ==
  ApplyDone =>
    /\ Len(applyReturn) = Len(applyPapers)
    /\ \A k \in Applied :
         /\ KeepsCounts(k)
         /\ TruthyNumber(applyPapers[k].year)
              => applyReturn[k].year = applyPapers[k].year
         /\ (applyPapers[k].year = Some(0) /\ PatchFor(k) # None)
              => applyReturn[k].year =
                   (IF TruthyNumber(PatchFor(k)[1].year) THEN PatchFor(k)[1].year
                    ELSE Some(CurrentYear))
         /\ ReplacesOnlyPlaceholderAuthors(k)

\* A record with a citationCount of 0, a journal and a year keeps them
\* against a patch that carries other values, while its placeholder authors
\* are replaced; a second record keeps its own authors.
C11_Witness ==
  /\ ApplyDone
  /\ Len(applyPapers) = 2
  /\ applyPapers[1].citationCount = Some(0)
  /\ applyPapers[1].journal = Some("JournalA")
  /\ applyPapers[1].year = Some(2020)
  /\ applyPapers[1].authors = <<"Unknown">>
  /\ PatchFor(1) # None
  /\ PatchFor(1)[1].citationCount = Some(9)
  /\ PatchFor(1)[1].journal = Some("JournalB")
  /\ PatchFor(1)[1].year = Some(1999)
  /\ applyReturn[1].citationCount = Some(0)
  /\ applyReturn[1].authors = <<"Cy">>
  /\ PatchFor(2) # None
  /\ applyPapers[2].authors = <<"Dee">>
  /\ applyReturn[2].authors = <<"Dee">>

\* ---- C12: record ids stay unique across the corpus

Saved == mpc = "done"
\* The loaded corpus has pairwise distinct ids (every corpus drawn has).
LoadedIdsUnique == HasUniqueIds(existingPapers)
\* A new record took the id of an existing one.
IdTakenTwice ==
  \E i \in DOMAIN existingPapers, k \in DOMAIN mainPapers :
    existingPapers[i].id = mainPapers[k].id

\* C12 as stated: when the ids of the loaded corpus are pairwise distinct,
\* the ids of the corpus that an ingestion run saves, existing and newly
\* appended records together, are pairwise distinct.
C12_IdsStayUnique ==
  (Saved /\ LoadedIdsUnique) => HasUniqueIds(allPapers)

\* ---- C13: withRetry does not retry a not-found failure

Trace == retry.trace
IsCall(p) == Trace[p].type = "call"
IsSleep(p) == Trace[p].type = "sleep"
Calls == {p \in DOMAIN Trace : IsCall(p)}
FailedWith(p, outcome) == IsCall(p) /\ Trace[p].outcome = outcome
\* The error object the invocation at position p of the trace rejected with.
ErrorAt(p) == [message |-> Trace[p].outcome.message, attempt |-> Trace[p].attempt]

\* C13: when an invocation of the wrapped call fails with a 404 error, on
\* whichever attempt, withRetry throws that error at once: the invocation is
\* the last event of the call, no wait and no invocation follows it.
C13_NotFoundNotRetried ==
  \A p \in DOMAIN Trace :
    FailedWith(p, ApiError(404))
      => /\ p = Len(Trace)
         /\ retry.pc = "thrown"
         /\ retry.thrown = <<ErrorAt(p)>>

\* A 404 on the second attempt, after a rate-limited first attempt, with
\* attempts to spare.
C13_Witness ==
  /\ attempts = 3
  /\ Len(Trace) = 3
  /\ FailedWith(1, ApiError(429))
  /\ IsSleep(2)
  /\ FailedWith(3, ApiError(404))
  /\ retry.pc = "thrown"

\* ---- C14: withRetry is bounded

LastCall == CHOOSE p \in Calls : \A q \in Calls : q <= p

\* C14: the wrapped call is invoked at most attempts times; an invocation
\* that succeeds is the last event and its response is returned; when
\* withRetry throws after having invoked the call, it throws the error of the
\* last invocation, and it does throw once attempts invocations have failed.
C14_Bounded ==
  /\ Cardinality(Calls) <= attempts
  /\ \A p \in Calls :
       Trace[p].outcome.ok
         => /\ p = Len(Trace)
            /\ retry.pc = "returned"
            /\ retry.value = <<[body |-> Trace[p].outcome.body,
                                attempt |-> Trace[p].attempt]>>
  /\ retry.pc = "returned" => (Trace # << >> /\ IsCall(Len(Trace))
                                 /\ Trace[Len(Trace)].outcome.ok)
  /\ (retry.pc = "thrown" /\ Calls # {}) => retry.thrown = <<ErrorAt(LastCall)>>
  /\ (Cardinality(Calls) = attempts /\ \A p \in Calls : ~Trace[p].outcome.ok)
       => retry.pc = "thrown"

\* Three attempts that fail in three different ways: the error thrown is the
\* third one.
C14_Witness ==
  /\ attempts = 3
  /\ Cardinality(Calls) = 3
  /\ retry.pc = "thrown"
  /\ retry.thrown = <<[message |-> NetworkDown.message, attempt |-> 3]>>
  /\ \E p \in Calls : FailedWith(p, ApiError(500)) /\ Trace[p].attempt = 1
  /\ \E p \in Calls : FailedWith(p, TimedOut) /\ Trace[p].attempt = 2

\* ---- C15: the backoff before a retry

\* C15: the invocation for attempt k + 1 comes right after a wait that comes
\* right after the failed invocation of attempt k, and the wait is
\* delay * k * 5 when that failure is a 429 and delay * k for any other
\* failure, a timeout included.
C15_Backoff ==
  \A p \in Calls :
    Trace[p].attempt > 1
      => /\ p >= 3
         /\ IsSleep(p - 1)
         /\ IsCall(p - 2)
         /\ ~Trace[p - 2].outcome.ok
         /\ Trace[p - 2].attempt = Trace[p].attempt - 1
         /\ Trace[p - 1].ms =
              (IF Trace[p - 2].outcome = ApiError(429)
               THEN delay * Trace[p - 2].attempt * 5
               ELSE delay * Trace[p - 2].attempt)

\* A rate-limited first attempt, a timed-out second one and a third attempt:
\* the waits are 5000 ms and 2000 ms.
C15_Witness ==
  /\ delay = 1000
  /\ Len(Trace) = 5
  /\ FailedWith(1, ApiError(429))
  /\ Trace[2] = SleepEvent(5000)
  /\ FailedWith(3, TimedOut)
  /\ Trace[4] = SleepEvent(2000)
  /\ IsCall(5)

\* ---- C16: a lookup that is rate limited twice and then answered

LookupDone == epc = "done"
\* The call of a client whose first two requests failed with a 429 and whose
\* third request was answered with JSON.
RateLimitedTwice(r) ==
  /\ Len(r.outcomes) = 3
  /\ r.outcomes[1] = ApiError(429)
  /\ r.outcomes[2] = ApiError(429)
  /\ r.outcomes[3].ok
  /\ r.outcomes[3].body.json # "invalid"
\* The data the third response carries: the work, the first hit of a title
\* search, or the page itself when the search has no hit.
ThirdResponseData(r, page) ==
  LET body == r.outcomes[3].body IN
  IF body.json = "work" THEN body.work
  ELSE IF body.hits # << >> THEN body.hits[1]
  ELSE page

\* C16: when a call of a client for the paper was rate limited on its first
\* two requests and answered on the third, enrichPaper returns success = true,
\* the data of that client is the data of the third response, and the patch
\* is the merge of the data held for the two clients.
C16_RateLimitedThenSuccess ==
  LookupDone =>
    \A k \in DOMAIN requests :
      RateLimitedTwice(requests[k])
        => /\ enrichResult[1].success
           /\ requests[k].source = "semantic_scholar"
                => semanticScholarData = Some(ThirdResponseData(requests[k], PageAsSSResponse))
           /\ requests[k].source = "openalex"
                => openAlexData = Some(ThirdResponseData(requests[k], PageAsOAResponse))
           /\ enrichResult[1].data =
                Some(mergeApiResponses(semanticScholarData, openAlexData))

\* The DOI lookup of Semantic Scholar is answered on its third request with a
\* work of 0 citations from 2017 while OpenAlex answers 404: the outcome is a
\* success from semantic_scholar with that count and that year.
C16_Witness ==
  /\ LookupDone
  /\ Len(requests) = 2
  /\ requests[1] = Request("semantic_scholar", "doi",
                           <<ApiError(429), ApiError(429), Resolves(WorkBody(SsWorkA))>>)
  /\ requests[2] = Request("openalex", "doi", <<ApiError(404)>>)
  /\ enrichResult[1].success
  /\ enrichResult[1].source = "semantic_scholar"
  /\ enrichResult[1].data[1].citationCount = Some(0)
  /\ enrichResult[1].data[1].year = Some(2017)
  /\ enrichResult[1].data[1].authors = Some(<<"Ann">>)

\* ---- C17: the batches and the waits of enrichPapers

BatchDone == bpc = "done"
PaperCount == Len(batchPapers)
Ceil(n, b) == (n + b - 1) \div b
BatchCount == Ceil(PaperCount, batchSize)
BatchSizes == [k \in DOMAIN batches |-> Cardinality(batches[k])]

\* C17: enrichPapers issues ceil(n/b) batches, the k-th made of the papers
\* (k-1)b+1 .. min(kb, n), so that each has b papers except a last one that
\* may have fewer; it waits CONFIG.batchDelay once after each batch but the
\* last, ceil(n/b) - 1 times for n > 0 and never for n = 0; 25 papers in
\* batches of 10 are issued as 10, 10 and 5 with 2 waits.
C17_BatchesAndDelays ==
  /\ Len(batches) <= BatchCount
  /\ \A k \in DOMAIN batches :
       /\ batches[k] = ((k - 1) * batchSize + 1)..Min(k * batchSize, PaperCount)
       /\ k < BatchCount => BatchSizes[k] = batchSize
       /\ k = BatchCount => BatchSizes[k] >= 1 /\ BatchSizes[k] <= batchSize
  /\ \A k \in DOMAIN delays : delays[k] = BatchDelay
  /\ Len(delays) = IF bpc = "sleep" THEN Len(batches) ELSE Max(Len(batches) - 1, 0)
  /\ bpc = "sleep" => Len(batches) < BatchCount
  /\ BatchDone =>
       /\ Len(batches) = BatchCount
       /\ Len(delays) = IF PaperCount > 0 THEN BatchCount - 1 ELSE 0
  /\ BatchDone /\ PaperCount = 25 /\ batchSize = 10 =>
       /\ BatchSizes = <<10, 10, 5>>
       /\ Len(delays) = 2

\* 25 papers and no options.batchSize: enrichPapers has returned after the
\* batches 1..10, 11..20 and 21..25 and two waits of 1000 ms.
C17_Witness ==
  /\ BatchDone
  /\ PaperCount = 25
  /\ batchSizeOption = None
  /\ batches = <<1..10, 11..20, 21..25>>
  /\ delays = <<1000, 1000>>

\* ---- C18: one batch at a time

\* The positions of the papers whose call of enrichPaper has started.
Started == UNION {batches[k] : k \in DOMAIN batches}
\* A step that issues a batch after the first.
IssuesLaterBatch == Len(batches) >= 1 /\ Len(batches') = Len(batches) + 1
\* The calls in flight are calls of the batch issued last, at most batchSize.
InflightOfOneBatch ==
  /\ inflight \subseteq Started
  /\ Cardinality(inflight) <= batchSize
  /\ inflight # {} => inflight \subseteq batches[Len(batches)]
\* Once batch k+1 is issued, no call of batch k is in flight, onProgress (when
\* given) has been called for batch k, and the wait after batch k is over.
EarlierBatchesOver ==
  \A k \in DOMAIN batches :
    k < Len(batches) =>
      /\ batches[k] \cap inflight = {}
      /\ onProgress =>
           /\ Len(progressCalls) >= k
           /\ progressCalls[k] = <<Min(k * batchSize, PaperCount), PaperCount>>
      /\ Len(delays) >= k
      /\ ~(bpc = "sleep" /\ Len(delays) = k)

\* C18: the calls of enrichPaper in flight at any moment belong to one batch
\* and are at most batchSize; a batch after the first is issued only from
\* the end of the wait that follows the batch before it, when every call of
\* that batch has resolved and onProgress, when given, has been called for it.
C18_BatchesSequential ==
  /\ [](InflightOfOneBatch /\ EarlierBatchesOver)
  /\ [][IssuesLaterBatch =>
          /\ inflight = {}
          /\ bpc = "sleep"
          /\ Len(delays) = Len(batches)
          /\ onProgress => Len(progressCalls) = Len(batches)]_vars

\* 4 papers in batches of 2 with onProgress: paper 3 of the second batch has
\* resolved and paper 4 is in flight, after onProgress(2, 4) and one wait.
C18_Witness ==
  /\ bpc = "await"
  /\ onProgress
  /\ batches = <<1..2, 3..4>>
  /\ inflight = {4}
  /\ progressCalls = <<<<2, 4>>>>
  /\ delays = <<1000>>

\* ---- C19: the completion order within a batch

\* The positions of the batch that is awaited.
CurrentBatch == batches[Len(batches)]
\* The map from the id of each paper to what enrichPaper resolved with for
\* it, for the papers at the positions of a set.
OutcomesById(positions) ==
  [id \in {batchPapers[k].id : k \in positions} |->
     outcomeOf[CHOOSE k \in positions : batchPapers[k].id = id]]

\* C19: while the calls of a batch are awaited, whether some, all or none of
\* them have resolved, the map holds the outcomes of the batches before it
\* and nothing of this batch; the map returned is the one from the id of each
\* paper to the outcome of its call, whatever the order the calls resolved in.
C19_OrderIndependent ==
  /\ bpc = "await" =>
       /\ resultsMap = OutcomesById(Started \ CurrentBatch)
       /\ \A k \in CurrentBatch : batchPapers[k].id \notin DOMAIN resultsMap
  /\ BatchDone => resultsMap = OutcomesById(DOMAIN batchPapers)

\* 3 papers in one batch: paper 3 has resolved with a success and paper 2
\* with a failure while paper 1 is in flight, and the map is empty.
C19_Witness ==
  /\ bpc = "await"
  /\ PaperCount = 3
  /\ batches = <<1..3>>
  /\ inflight = {1}
  /\ DOMAIN batchResults = {2, 3}
  /\ batchResults[3].success
  /\ ~batchResults[2].success
  /\ DOMAIN resultsMap = {}

\* ---- C20: one outcome for each paper

FailedPapers == {k \in DOMAIN batchPapers : ~outcomeOf[k].success}

\* C21: whichever calls of enrichPaper fail, enrichPapers returns; the map
\* it returns holds, for each paper that failed, a result with success =
\* false and an error message, and for every other paper, of the same batch
\* and of the later ones, that paper's own result.
C21_FailureIsolated ==
  /\ <>BatchDone
  /\ [](BatchDone =>
          /\ Started = DOMAIN batchPapers
          /\ \A k \in DOMAIN batchPapers :
               /\ batchPapers[k].id \in DOMAIN resultsMap
               /\ resultsMap[batchPapers[k].id] = outcomeOf[k]
               /\ k \in FailedPapers =>
                    /\ ~resultsMap[batchPapers[k].id].success
                    /\ resultsMap[batchPapers[k].id].error # "")

\* 4 papers in batches of 2: the first found no data and the second threw,
\* the third, of the next batch, is enriched, and enrichPapers has returned
\* the four results.
C21_Witness ==
  /\ BatchDone
  /\ PaperCount = 4
  /\ batches = <<1..2, 3..4>>
  /\ resultsMap[<<"p", "1">>] = Failure("No data found from any API")
  /\ resultsMap[<<"p", "2">>] = Failure("Cannot read properties of null")
  /\ resultsMap[<<"p", "3">>].success
  /\ DOMAIN resultsMap = {<<"p", "1">>, <<"p", "2">>, <<"p", "3">>, <<"p", "4">>}

\* ---- C22: no source has data for the paper

\* How the request of a client ended: thrown by withRetry on a 404 or after
\* the last attempt, or answered.
EndOf(r) == RequestOutcome(r.outcomes)
NotAnswered(r) == EndOf(r).pc # "returned"
\* The answer is a page of search results without a hit.
ZeroHits(r) ==
  /\ ~NotAnswered(r)
  /\ r.type = "title"
  /\ EndOf(r).value[1].body.json = "search"
  /\ EndOf(r).value[1].body.hits = << >>
ProducedNoData(r) == NotAnswered(r) \/ ZeroHits(r)

\* C22: when every lookup made for the paper ended in a 404, in exhausted
\* retries or in a title search without a hit, enrichPaper returns a result
\* with success = false.
C22_NoDataIsFailure ==
  LookupDone /\ (\A k \in DOMAIN requests : ProducedNoData(requests[k]))
    => ~enrichResult[1].success

\* ---- C23: the order of the lookup steps

StepRank(type) == IF type = "doi" THEN 1 ELSE IF type = "arxiv" THEN 2 ELSE 3
\* What the client returned for a request: None for null.
DataOf(r) ==
  IF r.source = "semantic_scholar"
  THEN getSemanticScholarData(r.type, r.outcomes)
  ELSE getOpenAlexData(r.type, r.outcomes)

\* C23: the requests are issued in the order DOI, arXiv id, title, and a
\* request of a later step is issued only when no request of an earlier step
\* returned data, whichever source it asked.
C23_StopsAtFirstSuccess ==
  \A j, k \in DOMAIN requests :
    /\ j < k => StepRank(requests[j].type) <= StepRank(requests[k].type)
    /\ StepRank(requests[j].type) < StepRank(requests[k].type)
         => DataOf(requests[j]) = None

\* ---- C24: the precedence of mergeApiResponses

Merged == epc = "done" /\ enrichResult[1].success
MergedPatch == enrichResult[1].data[1]
\* What a response reports of a property: None when the response is null or
\* has no such property.
SSReports(field) == IF semanticScholarData = None THEN None ELSE semanticScholarData[1][field]
OAReports(field) == IF openAlexData = None THEN None ELSE openAlexData[1][field]
\* The names a source reports for the journal.
ReportedJournalNames ==
  (IF OAReports("source") # None /\ TruthyString(OAReports("source")[1].display_name)
   THEN {OAReports("source")[1].display_name[1]} ELSE {})
    \cup (IF TruthyString(SSReports("venue")) THEN {SSReports("venue")[1]} ELSE {})
\* The precedence of the counts and of the journal.
MergePrecedence ==
  /\ MergedPatch.citationCount =
       IF SSReports("citationCount") # None THEN SSReports("citationCount")
       ELSE OAReports("cited_by_count")
  /\ MergedPatch.influentialCitations = SSReports("influentialCitationCount")
  /\ OAReports("source") # None =>
       /\ MergedPatch.journal # None
       /\ MergedPatch.journal[1].issn = OAReports("source")[1].issn_l
       /\ TruthyString(OAReports("source")[1].display_name)
            => MergedPatch.journal[1].name = OAReports("source")[1].display_name[1]
  /\ OAReports("source") = None =>
       MergedPatch.journal =
         IF TruthyString(SSReports("venue"))
         THEN Some(Journal(SSReports("venue")[1], None, None, None))
         ELSE None
  /\ MergedPatch.year # None => MergedPatch.year = SSReports("year")
  /\ MergedPatch.authors = None
       \/ /\ SSReports("authors") # None
          /\ MergedPatch.authors[1] = TruthyNames(SSReports("authors")[1])
       \/ /\ OAReports("authorships") # None
          /\ MergedPatch.authors[1] = TruthyNames(OAReports("authorships")[1])

\* C24 as stated: the patch follows the precedence, and every value in it is
\* one a source reported; in particular the name of the journal is the
\* display name of OpenAlex's source or Semantic Scholar's venue.
C24_PrecedenceNothingInvented ==
  Merged =>
    /\ MergePrecedence
    /\ MergedPatch.journal # None => MergedPatch.journal[1].name \in ReportedJournalNames

\* C24 amended: the patch follows the precedence, and every value in it is
\* one a source reported, but for the name of the journal, which is
\* 'Unknown' when OpenAlex's source has no display name.
C24_PrecedenceUnknownJournalName ==
  Merged =>
    /\ MergePrecedence
    /\ MergedPatch.journal # None =>
         IF OAReports("source") # None /\ ~TruthyString(OAReports("source")[1].display_name)
         THEN MergedPatch.journal[1].name = "Unknown"
         ELSE MergedPatch.journal[1].name \in ReportedJournalNames

\* Semantic Scholar reports 0 citations and the venue NeurIPS, OpenAlex 40
\* citations and a source without a display name: the patch has 0 citations
\* and a journal named 'Unknown'.
C24_Witness ==
  /\ Merged
  /\ SSReports("citationCount") = Some(0)
  /\ SSReports("venue") = Some("NeurIPS")
  /\ OAReports("cited_by_count") = Some(40)
  /\ OAReports("source") = Some(OASource(None, None, None, None))
  /\ MergedPatch.citationCount = Some(0)
  /\ MergedPatch.journal = Some(Journal("Unknown", None, None, None))

\* ---- C25: which passages yield a candidate

\* A title that passes the plausibility filter: none of the patterns of
\* lines 117-121 matches it.
Plausible(title) ==
  /\ toLowerCase(title) \notin InvalidWholeTitles
  /\ \A start \in InvalidTitleStarts : ~StartsWith(toLowerCase(title), start)
HasIdentifier(section) ==
  extractDOIs(section.doiCaptures) # << >> \/ extractArxivIds(section.arxivCaptures) # << >>
\* The passage has a title that extractTitles keeps and that is still a
\* title of 10 characters or more that passes the filter when it is cleaned
\* once more.
HasValidTitle(section) ==
  \E k \in DOMAIN extractTitles(section.titleCaptures) :
    /\ Plausible(cleanTitle(extractTitles(section.titleCaptures)[k]))
    /\ Len(cleanTitle(extractTitles(section.titleCaptures)[k])) >= 10
\* The first title extractTitles keeps is still a title of 10 characters or
\* more that passes the filter when it is cleaned once more.
FirstTitleStaysValid(section) ==
  /\ extractTitles(section.titleCaptures) # << >>
  /\ Plausible(cleanTitle(extractTitles(section.titleCaptures)[1]))
  /\ Len(cleanTitle(extractTitles(section.titleCaptures)[1])) >= 10
\* What a candidate is made of: its title is the extracted one, else
\* 'Paper DOI:<doi>', else 'Paper arXiv:<id>', and is not empty; its authors
\* are the ones found, ['Unknown'] when none was.
WellFormedCandidate(section, paper) ==
  /\ paper.title # << >>
  /\ Plausible(paper.title)
  /\ paper.title =
       IF FirstTitleStaysValid(section)
       THEN cleanTitle(extractTitles(section.titleCaptures)[1])
       ELSE IF extractDOIs(section.doiCaptures) # << >>
       THEN PaperDoi \o extractDOIs(section.doiCaptures)[1]
       ELSE PaperArxiv \o extractArxivIds(section.arxivCaptures)[1]
  /\ paper.authors # << >>
  /\ paper.authors = IF section.authors = << >> THEN <<"Unknown">> ELSE section.authors
\* A passage whose only title is References and that has no identifier
\* yields no candidate.
ReferencesAloneYieldsNone ==
  \A k \in DOMAIN sectionResults :
    /\ Sections[k].titleCaptures = <<<<"R", "e", "f", "e", "r", "e", "n", "c", "e", "s">>>>
    /\ ~HasIdentifier(Sections[k])
    => sectionResults[k] = None

\* C25 as stated: a passage yields a candidate if and only if it has a title
\* that passes the plausibility filter or an identifier, and every candidate
\* has a non-empty title and a non-empty list of authors.
C25_CandidateIffTitleOrIdentifier ==
  /\ ReferencesAloneYieldsNone
  /\ \A k \in DOMAIN sectionResults :
       /\ sectionResults[k] # None
            <=> HasValidTitle(Sections[k]) \/ HasIdentifier(Sections[k])
       /\ sectionResults[k] # None
            => WellFormedCandidate(Sections[k], sectionResults[k][1])

\* C25 amended: a passage yields a candidate if and only if it has an
\* identifier or the first of the titles extractTitles keeps is still valid
\* when parsePaperSection cleans it again, whatever its other titles are, and
\* every candidate has a non-empty title and a non-empty list of authors.
C25_CandidateIffFirstTitleOrIdentifier ==
  /\ ReferencesAloneYieldsNone
  /\ \A k \in DOMAIN sectionResults :
       /\ sectionResults[k] # None
            <=> FirstTitleStaysValid(Sections[k]) \/ HasIdentifier(Sections[k])
       /\ sectionResults[k] # None
            => WellFormedCandidate(Sections[k], sectionResults[k][1])

\* The bold text '1. 2. References' is kept by extractTitles as
\* '2. References' and cleaned again to 'References': a passage with that
\* title before the title 'Attention Is All' yields no candidate, and the
\* next passage, with a DOI and no title, yields 'Paper DOI:10.5555/b' by
\* Unknown.
C25_Witness ==
  /\ Len(sectionResults) = 2
  /\ Sections[1].titleCaptures = <<<<"1", ".", " ", "2", ".", " ", "R", "e", "f", "e", "r", "e", "n", "c", "e", "s">>,
                                   <<"A", "t", "t", "e", "n", "t", "i", "o", "n", " ", "I", "s", " ", "A", "l", "l">>>>
  /\ ~HasIdentifier(Sections[1])
  /\ sectionResults[1] = None
  /\ sectionResults[2] # None
  /\ sectionResults[2][1].title = PaperDoi \o DoiSecond
  /\ sectionResults[2][1].authors = <<"Unknown">>

\* ---- C26: the scan of the whole document

ParseDone == ppc = "done"
\* The candidates the passages yielded.
SectionCandidates ==
  {sectionResults[k][1] : k \in {j \in DOMAIN sectionResults : sectionResults[j] # None}}
\* The identifiers found anywhere in the document, cleaned as lines 71 and
\* 92 clean them.
DocumentDois ==
  {CleanDoi(c) : c \in {AllCaptures(markdown, "doiCaptures")[k] :
                          k \in DOMAIN AllCaptures(markdown, "doiCaptures")}}
DocumentArxivIds ==
  {StripVersion(c) : c \in {AllCaptures(markdown, "arxivCaptures")[k] :
                              k \in DOMAIN AllCaptures(markdown, "arxivCaptures")}}
\* The minimal candidate of an identifier.
IsMinimalFor(paper, doi, arxivId) ==
  /\ paper.doi = doi
  /\ paper.arxivId = arxivId
  /\ paper.title = IF doi # << >> THEN PaperDoi \o doi ELSE PaperArxiv \o arxivId
  /\ paper.authors = <<"Unknown">>
  /\ paper.year = None
  /\ paper.url = IF doi # << >> THEN DoiOrgUrl \o doi ELSE ArxivAbsUrl \o arxivId

\* C26: when no passage yielded a candidate, parseResearchMarkdown returns
\* one minimal candidate for each DOI and each arXiv id found anywhere in the
\* document and nothing else; when a passage yielded one, it returns
\* candidates of the passages only.
C26_FallbackOnlyWhenEmpty ==
  ParseDone =>
    IF SectionCandidates = {}
    THEN /\ Len(parsedPapers) = Cardinality(DocumentDois) + Cardinality(DocumentArxivIds)
         /\ \A doi \in DocumentDois :
              \E k \in DOMAIN parsedPapers : IsMinimalFor(parsedPapers[k], doi, << >>)
         /\ \A id \in DocumentArxivIds :
              \E k \in DOMAIN parsedPapers : IsMinimalFor(parsedPapers[k], << >>, id)
    ELSE /\ parsedPapers # << >>
         /\ \A k \in DOMAIN parsedPapers : parsedPapers[k] \in SectionCandidates

\* A passage of 50 characters or less mentions one DOI twice, once with a
\* trailing dot, and one arXiv id twice, once with a version; the other
\* passage is titled References: no passage yields a candidate and the scan
\* returns the two minimal candidates.
C26_Witness ==
  /\ ParseDone
  /\ Len(markdown) = 2
  /\ ~markdown[1].long
  /\ sectionResults = <<None>>
  /\ Len(parsedPapers) = 2
  /\ IsMinimalFor(parsedPapers[1], DoiPlain, << >>)
  /\ IsMinimalFor(parsedPapers[2], << >>, ArxivPlain)

\* The value a record has under a key: that of the property, undefined when
\* the record has no such property.
KeysOf(record) == {record.v[k][1] : k \in 1..Len(record.v)}
FieldOf(record, key) ==
  IF key \in KeysOf(record)
  THEN record.v[CHOOSE k \in 1..Len(record.v) : record.v[k][1] = key][2]
  ELSE JUndefined
SameFields(a, b) ==
  \A key \in KeysOf(a) \cup KeysOf(b) : FieldOf(a, key) = FieldOf(b, key)

\* C27: a corpus written with savePapers and read back with
\* loadExistingPapers comes back with as many records, in the same order, each
\* equal to the written one field for field, whichever optional fields it has.
C27_StorageRoundTrip ==
  stpc = "reloaded" =>
    /\ Len(loaded) = Len(corpus)
    /\ \A k \in 1..Len(corpus) : SameFields(loaded[k], corpus[k])

\* A corpus of a record with no optional field, one with all of them and one
\* with undefined properties has been written and read back.
C27_Witness ==
  /\ stpc = "reloaded"
  /\ corpus = <<PaperWith(AllOptional), PaperWith({}), PaperWithUndefined({7})>>
  /\ Len(loaded) = 3
  /\ KeysOf(loaded[1]) # KeysOf(loaded[2])

\* The run has read public/data.json and the read or the parse failed.
ReadFailed ==
  /\ fileCalls # << >>
  /\ fileCalls[1].op = "read"
  /\ fileCalls[1].failed

\* The records of mainPapers are the accepted candidates, one each, in order.
AcceptedRecords ==
  /\ Len(mainPapers) = Len(report.newPapers)
  /\ \A k \in DOMAIN mainPapers :
       mainPapers[k].title = newPapers[report.newPapers[k]].title

\* C28: when reading or parsing the corpus fails, the run goes on with the
\* empty corpus: no candidate is reported as a duplicate of an existing
\* record, the run ends early only in check-only mode, and the file written
\* at the end holds exactly the newly accepted records.
C28_ReadFailureIsEmptyCorpus ==
  ReadFailed =>
    /\ existingPapers = << >>
    /\ report.duplicates = << >>
    /\ mpc = "exit" => checkOnly
    /\ mpc = "done" =>
         /\ fileCalls[Len(fileCalls)] = WriteCall(mainPapers)
         /\ dataFile = [readable |-> TRUE, papers |-> mainPapers]
         /\ AcceptedRecords

\* A run that could not read the corpus has written two new records.
C28_Witness ==
  /\ ReadFailed
  /\ mpc = "done"
  /\ Len(dataFile.papers) = 2

Reads == SelectSeq(fileCalls, LAMBDA call : call.op = "read")
Writes == SelectSeq(fileCalls, LAMBDA call : call.op = "write")
RunOver == mpc \in {"done", "exit"}

\* The corpus is read and written at most once; a write is the last thing the
\* run does, of the loaded corpus followed by the accepted records; and
\* nothing is written under --check, without candidates, or when no candidate
\* is new.
WriteDiscipline ==
  /\ Len(Reads) <= 1
  /\ Len(Writes) <= 1
  /\ Writes # << >> =>
       /\ mpc = "done"
       /\ fileCalls = <<fileCalls[1], WriteCall(existingPapers \o mainPapers)>>
       /\ fileCalls[1].op = "read"
       /\ dataFile.papers = existingPapers \o mainPapers
       /\ AcceptedRecords
  /\ mpc = "done" => Writes # << >>
  /\ checkOnly \/ newPapers = << >> \/ (RunOver /\ report.newPapers = << >>)
       => Writes = << >>

\* C29 as stated: every run reads the corpus exactly once, writes it at most
\* once, at the end, as the loaded corpus followed by the accepted records,
\* and does not write it under --check, without candidates or when every
\* candidate is a duplicate.
C29_ReadOnceWriteAtMostOnce ==
  /\ WriteDiscipline
  /\ RunOver => Len(Reads) = 1

\* C29, amended: as above, except that a run whose extraction finds no
\* candidate ends before the corpus is read; every other run reads it once.
C29_ReadAtMostOnceWriteAtMostOnce ==
  /\ WriteDiscipline
  /\ RunOver => Len(Reads) = (IF newPapers = << >> THEN 0 ELSE 1)

\* A run has written a non-empty loaded corpus followed by new records, after
\* reporting a duplicate.
C29_Witness ==
  /\ mpc = "done"
  /\ existingPapers # << >>
  /\ mainPapers # << >>
  /\ report.duplicates # << >>
  /\ Len(Reads) = 1

RetryOver == retry.pc \in {"returned", "thrown"}
EndsWithWait ==
  /\ retry.trace # << >>
  /\ retry.trace[Len(retry.trace)].type = "sleep"

\* C30: every wait of withRetry is followed by another attempt: when the call
\* has returned or thrown, the last thing it did was an attempt, not a wait,
\* whatever the class of the last failure.
C30_NoTrailingWait ==
  RetryOver =>
    /\ ~EndsWithWait
    /\ \A k \in 1..(Len(retry.trace) - 1) :
         retry.trace[k].type = "sleep" => retry.trace[k + 1].type = "call"
====
